---- MODULE Spec2Model ----
(***************************************************************************)
(* Model of the SEO blog optimizer.                                        *)
(*                                                                         *)
(* Part 1: run_optimization (src/optimizer.py), the generate / revise /    *)
(* score loop with best tracking and plateau termination.                  *)
(*                                                                         *)
(* Scores are floats in the program; here a score is an integer number of  *)
(* hundredths of a point (7000 is 70.00), so that differences below the    *)
(* display resolution of ScoreReport.to_dict (one decimal) and below       *)
(* ITERATIONS["improvement_threshold"] (1.0) are representable.            *)
(***************************************************************************)
EXTENDS Integers, Sequences, FiniteSets, TLC

(***************************************************************************)
(* Bounds of the model.                                                    *)
(***************************************************************************)
\* largest value passed as the `iterations` argument
MaxRequested == 2
\* number of score values lying just above 90.00, 0.04 apart
NumFineScores == 1

(***************************************************************************)
(* config.py: ITERATIONS                                                   *)
(***************************************************************************)
default_count == 5
max_count == 15
\* 1.0 point
improvement_threshold == 100
plateau_patience == 2

(***************************************************************************)
(* Inputs                                                                  *)
(***************************************************************************)
\* config.py: CONTENT_TYPES keys
CONTENT_TYPES ==
    {"market_update", "community_guide", "home_buying", "home_selling",
     "mortgage_rates", "neighborhood", "homebuyer_programs", "local_events",
     "local_history"}

\* values of the content_type argument: the default, and one unknown key
ContentTypeArgs == {"community_guide", "podcast"}

\* iterations=None
NoArg == [given |-> FALSE, value |-> 0]

\* values of the `iterations` argument: None, or an integer
IterationsArgs ==
    {NoArg}
        \cup {[given |-> TRUE, value |-> n] : n \in (-1)..MaxRequested}

\* total scores a document can receive (hundredths of a point)
Scores ==
    {6500, 6800, 7000, 7900, 8000, 9000}
        \cup {9000 + 4 * k : k \in 1..NumFineScores}

\* the total score_post gives the empty text: 7.75 (see EmptyDocTotal below)
EmptyTextTotal == 775

\* What the collaborator can return, as far as the loop can tell documents
\* apart: the total score_post gives the text, whether the text starts with
\* a preamble block, and whether the preamble's title and description are
\* text (score_post calls .lower() on them).  The response without a preamble
\* block is the empty text.
Responses ==
    {[has_preamble |-> TRUE, text_fields |-> TRUE, total |-> s] : s \in Scores}
        \cup {[has_preamble |-> TRUE, text_fields |-> FALSE, total |-> 0]}
        \cup {[has_preamble |-> FALSE, text_fields |-> TRUE,
                total |-> EmptyTextTotal]}

\* the document produced by call number n (0 = initial generation)
Document(n, resp) ==
    [id |-> n, has_preamble |-> resp.has_preamble,
     text_fields |-> resp.text_fields, total |-> resp.total]

NoDoc == [id |-> -1, has_preamble |-> FALSE, text_fields |-> FALSE, total |-> 0]
NoReport == [total_score |-> 0, iteration |-> -1]

(***************************************************************************)
(* Part 2: score_post (src/scoring.py).                                    *)
(*                                                                         *)
(* A document is given by what the extraction functions of scoring.py      *)
(* (parse_frontmatter, count_words, extract_headings, extract_sentences,   *)
(* extract_paragraphs and the regular expressions of the rules) measure on *)
(* its text, for one keyword and one community.                            *)
(***************************************************************************)
\* config.py: SCORING.  Densities are in thousandths (0.008 is 8).
SCORING ==
    [word_count |->
        [weight |-> 10, target_min |-> 1500, target_max |-> 2500,
         hard_min |-> 800, hard_max |-> 3500],
     keyword_optimization |->
        [weight |-> 15, target_density_min |-> 8, target_density_max |-> 20],
     heading_structure |->
        [weight |-> 10, target_h2_count_min |-> 3, target_h2_count_max |-> 8,
         target_h3_count_min |-> 2],
     readability |->
        [weight |-> 10, target_avg_sentence_length_min |-> 12,
         target_avg_sentence_length_max |-> 22,
         target_avg_paragraph_sentences_min |-> 2,
         target_avg_paragraph_sentences_max |-> 5],
     local_seo |-> [weight |-> 15, community_mention_min |-> 3],
     meta_description |->
        [weight |-> 10, target_length_min |-> 140, target_length_max |-> 160],
     internal_linking |->
        [weight |-> 10, target_min_links |-> 3, target_max_links |-> 8],
     content_depth |-> [weight |-> 10, target_unique_sections |-> 4],
     call_to_action |->
        [weight |-> 5, target_cta_count_min |-> 2, target_cta_count_max |-> 4],
     frontmatter |->
        [weight |-> 5,
         required_fields |-> <<"title", "description", "date", "keywords",
                               "author", "community", "category">>]]

\* longest list of headings, longest list of sentences, and the number of
\* times score_post is called on a document
MaxHeadings == 4
MaxSentences == 5
MaxCalls == 2

\* communities of BUSINESS["communities"] other than the document's own
CommunityNames == {"Powell", "Dublin"}

\* The iteration order of a set of strings follows the string hashes, which
\* change with the hash seed of the interpreter: a seed is given by the order
\* in which it makes the community names come out of a set.
HashSeeds ==
    {q \in [1..Cardinality(CommunityNames) -> CommunityNames] :
        \A a, b \in DOMAIN q : a # b => q[a] # q[b]}

\* what parse_frontmatter returns: no preamble block matched, a block that
\* is no YAML, a block that loads to a falsy value, a block that loads to a
\* list or a string, a block that loads to a mapping
PreambleKinds == {"none", "unparseable", "empty", "not_mapping", "mapping"}

\* the value stored under a key of the mapping: no such key, "", null,
\* a non-zero number, a non-empty text
FieldKinds == {"absent", "empty", "null", "number", "text"}

\* len(description)
DescLens == {20, 50, 51, 99, 100, 139, 140, 150, 160, 161, 200, 201, 300}

\* count_words(body)
WordCounts ==
    {1, 799, 800, 801, 1000, 1150, 1499, 1500, 2000, 2500, 2501, 3000, 3499,
     3500, 3501, 5000}

\* occurrences of the keyword in the body
KwCounts == {0, 1, 4, 8, 12, 20, 50}

\* words of a sentence
SentenceLens == {5, 12, 30}

\* the empty text
EmptyPost ==
    [fm |-> "none", title |-> "absent", title_kw |-> FALSE,
     description |-> "absent", desc_len |-> 0, desc_kw |-> FALSE,
     desc_cta |-> FALSE, desc_generic |-> FALSE, other_fields |-> 0,
     wc |-> 0, kw_first100 |-> FALSE, kw_headings |-> FALSE, kw_count |-> 0,
     kw_words |-> 2, headings |-> <<>>, sentences |-> <<>>,
     paragraphs |-> <<>>, community_count |-> 0, region_hits |-> 0,
     nearby |-> 0, signals |-> 0, internal_links |-> 0, external_links |-> 0,
     service_link |-> FALSE, cross_links |-> {}, stat_count |-> 0,
     question_count |-> 0, has_faq |-> FALSE, comparison |-> FALSE,
     cta_count |-> 0]

\* a document every rule gives its full weight
GoodPost ==
    [fm |-> "mapping", title |-> "text", title_kw |-> TRUE,
     description |-> "text", desc_len |-> 150, desc_kw |-> TRUE,
     desc_cta |-> TRUE, desc_generic |-> FALSE, other_fields |-> 5,
     wc |-> 2000, kw_first100 |-> TRUE, kw_headings |-> TRUE, kw_count |-> 12,
     kw_words |-> 2, headings |-> <<1, 2, 3, 3, 2, 2>>,
     sentences |-> <<5, 30, 12, 30>>, paragraphs |-> <<3>>,
     community_count |-> 3, region_hits |-> 3, nearby |-> 2, signals |-> 3,
     internal_links |-> 3, external_links |-> 0, service_link |-> TRUE,
     cross_links |-> {"Dublin"}, stat_count |-> 3, question_count |-> 3,
     has_faq |-> FALSE, comparison |-> TRUE, cta_count |-> 2]

\* the preamble fields of a record
PreambleOf(d) ==
    [fm |-> d.fm, title |-> d.title, title_kw |-> d.title_kw,
     description |-> d.description, desc_len |-> d.desc_len,
     desc_kw |-> d.desc_kw, desc_cta |-> d.desc_cta,
     desc_generic |-> d.desc_generic, other_fields |-> d.other_fields]

\* every preamble: without a mapping there are no fields
Preambles ==
    {[PreambleOf(EmptyPost) EXCEPT !.fm = k] : k \in PreambleKinds \ {"mapping"}}
        \cup
    {f \in [fm : {"mapping"}, title : FieldKinds, title_kw : BOOLEAN,
            description : FieldKinds, desc_len : DescLens \cup {0},
            desc_kw : BOOLEAN, desc_cta : BOOLEAN, desc_generic : BOOLEAN,
            other_fields : {0, 3, 5}] :
        /\ f.title_kw => f.title = "text"
        /\ f.description = "text" <=> f.desc_len > 0
        /\ f.desc_kw \/ f.desc_cta \/ f.desc_generic => f.description = "text"}

\* a document with preamble f and the body of b
WithPreamble(b, f) ==
    [b EXCEPT !.fm = f.fm, !.title = f.title, !.title_kw = f.title_kw,
              !.description = f.description, !.desc_len = f.desc_len,
              !.desc_kw = f.desc_kw, !.desc_cta = f.desc_cta,
              !.desc_generic = f.desc_generic,
              !.other_fields = f.other_fields]

\* levels of the lines that are markdown headings: one to six '#'
HeadingLevels == 1..6

HeadingLists ==
    UNION {[1..n -> HeadingLevels] : n \in 0..MaxHeadings}
        \cup {[k \in 1..9 |-> 2], <<1, 2, 3, 3, 2, 2>>}

SentenceLists == UNION {[1..n -> SentenceLens] : n \in 0..MaxSentences}

ParagraphLists == {<<>>, <<0>>, <<1>>, <<3>>, <<6>>, <<1, 3>>}

\* keyword measurements: the keyword cannot occur more often than the body
\* has room for, and occurs if it is in the first words or in a heading
KeywordBodies ==
    {k \in [wc : WordCounts, kw_count : KwCounts, kw_words : {1, 2},
            kw_first100 : BOOLEAN, kw_headings : BOOLEAN] :
        /\ k.kw_count * k.kw_words <= k.wc
        /\ k.kw_first100 \/ k.kw_headings => k.kw_count > 0}

\* link measurements: service and community links are internal links
LinkBodies ==
    {k \in [internal_links : {0, 1, 3, 9}, external_links : {0, 2},
            service_link : BOOLEAN, cross_links : SUBSET CommunityNames] :
        k.service_link \/ k.cross_links # {} => k.internal_links > 0}

\* The documents scored: every preamble on the empty body and on the body
\* of GoodPost, and the body of GoodPost with the measurements of one rule
\* varied at a time.
Posts ==
    {WithPreamble(b, f) : b \in {EmptyPost, GoodPost}, f \in Preambles}
        \cup
    {[GoodPost EXCEPT !.wc = k.wc, !.kw_count = k.kw_count,
                      !.kw_words = k.kw_words,
                      !.kw_first100 = k.kw_first100,
                      !.kw_headings = k.kw_headings] : k \in KeywordBodies}
        \cup
    {[GoodPost EXCEPT !.headings = hl] : hl \in HeadingLists}
        \cup
    {[GoodPost EXCEPT !.sentences = sl] : sl \in SentenceLists}
        \cup
    {[GoodPost EXCEPT !.sentences = sl, !.paragraphs = pl] :
        sl \in {<<>>, GoodPost.sentences}, pl \in ParagraphLists}
        \cup
    {[GoodPost EXCEPT !.community_count = c, !.region_hits = r,
                      !.nearby = n, !.signals = g] :
        c \in {0, 1, 3}, r \in {0, 1, 3}, n \in {0, 1, 2}, g \in {0, 1, 3}}
        \cup
    {[GoodPost EXCEPT !.internal_links = k.internal_links,
                      !.external_links = k.external_links,
                      !.service_link = k.service_link,
                      !.cross_links = k.cross_links] : k \in LinkBodies}
        \cup
    {[GoodPost EXCEPT !.stat_count = t, !.question_count = q,
                      !.has_faq = f, !.comparison = c] :
        t \in {0, 1, 3}, q \in {0, 1, 3}, f \in BOOLEAN, c \in BOOLEAN}
        \cup
    {[GoodPost EXCEPT !.cta_count = c] : c \in 0..5}

VARIABLES
    pc,             \* position in run_optimization
    iterations,     \* the iteration cap after clamping
    i,              \* loop variable: index of the current iteration
    content,        \* most recently produced document
    report,         \* its ScoreReport
    history,        \* list of iteration records
    best_content,
    best_score,
    best_iteration,
    plateau_count,
    requests,       \* prompts passed to call_claude, in order
    versions,       \* v{i}.md / v{i}_score.json files written, in order
    final_md,       \* FINAL.md, <<>> until written
    run_summary,    \* run_summary.json, <<>> until written
    result,         \* the returned dict, <<>> until returned
    error,          \* exception leaving run_optimization, "none" if none
    requested       \* the `iterations` argument as passed by the caller

\* config.py as deployed
VARIABLES
    zero_weight     \* SCORING["word_count"]["weight"] is 0

\* batch.py: main
VARIABLES
    batch_pc,       \* position in main
    batch_args,     \* the parsed arguments
    results,        \* list of result records
    run_calls       \* communities run_optimization was called for, in order

runVars ==
    <<pc, iterations, i, content, report, history, best_content, best_score,
      best_iteration, plateau_count, requests, versions, final_md,
      run_summary, result, error, requested>>

batchVars == <<batch_pc, batch_args, results, run_calls>>

\* scoring.py: score_post called on a document
VARIABLES
    post,           \* the document, keyword and community passed to score_post
    hash_seed,      \* string hash seed of the running interpreter
    reports,        \* outcomes of the calls of score_post on `post`, in order
    prompt          \* the improvement prompt built from the latest report,
                    \* <<>> until built

scoreVars == <<post, hash_seed, reports, prompt>>

\* optimizer.py: extract_markdown called on a collaborator response
VARIABLES
    response,       \* the response text, as a sequence of tokens
    extracted       \* what extract_markdown did with it, <<>> until called

extractVars == <<response, extracted>>

\* publish.py: markdown_to_html working through the lines of a body
VARIABLES
    lines,          \* body.strip().split('\n'), each line by its kind
    line_no,        \* number of lines the for loop has consumed
    html_lines,     \* the output, each element by its kind
    in_ul,
    in_ol,
    in_paragraph,
    paragraph_lines,\* number of lines collected for the open paragraph
    returned        \* markdown_to_html has returned

htmlVars ==
    <<lines, line_no, html_lines, in_ul, in_ol, in_paragraph,
      paragraph_lines, returned>>

toolVars == <<extractVars, htmlVars>>

vars == <<runVars, zero_weight, batchVars, scoreVars, toolVars>>

(***************************************************************************)
(* Helpers                                                                 *)
(***************************************************************************)
Min(a, b) == IF a <= b THEN a ELSE b

Last(s) == s[Len(s)]

\* round(x, 1): x in hundredths to the nearest tenth, ties to even
Round1(x) ==
    LET q == x \div 10
        r == x % 10
    IN  IF r < 5 THEN 10 * q
        ELSE IF r > 5 THEN 10 * (q + 1)
        ELSE IF q % 2 = 0 THEN 10 * q ELSE 10 * (q + 1)

\* ScoreReport.to_dict
to_dict(rep) ==
    [total_score |-> Round1(rep.total_score), iteration |-> rep.iteration]

\* the exception score_post raises on a document, "none" if it returns:
\* score_word_count divides by its weight, score_keyword_optimization calls
\* .lower() on title and description
ScorePostError(doc) ==
    IF zero_weight THEN "ZeroDivisionError"
    ELSE IF ~doc.text_fields THEN "AttributeError"
    ELSE "none"

ScorePostRaises(doc) == ScorePostError(doc) # "none"

\* score_post
score_post(doc, iteration) ==
    [total_score |-> doc.total, iteration |-> iteration]

\* iterations = default if None; iterations = min(iterations, max_count)
ClampIterations_unclamped(arg) ==
    IF arg.given THEN arg.value ELSE default_count
ClampIterations(arg) ==
    Min(IF arg.given THEN arg.value ELSE default_count, max_count)

\* for i in range(1, iterations + 1): is there a next iteration after `cur`
LoopContinues_short(cur, cap) == cur + 1 < cap
LoopContinues(cur, cap) == cur + 1 <= cap

\* improvement = new_report.total_score - report.total_score
Improvement_over_best(new_total, prev_total) == new_total - best_score
Improvement(new_total, prev_total) == new_total - prev_total

\* if new_report.total_score > best_score
IsNewBest_or_equal(new_total, best) == new_total >= best
IsNewBest_threshold(new_total, best) == new_total - best >= improvement_threshold
IsNewBest_over_dip(new_total, best) ==
    \E k \in 1..Len(history) : new_total > history[k].score
IsNewBest(new_total, best) == new_total > best

\* plateau_count = 0 / plateau_count += 1
NextPlateau_on_improvement(isBest, improvement, p) ==
    IF improvement > 0 THEN 0 ELSE p + 1
NextPlateau(isBest, improvement, p) == IF isBest THEN 0 ELSE p + 1

\* if plateau_count >= plateau_patience: break
PlateauReached_late(p) == p > plateau_patience
PlateauReached(p) == p >= plateau_patience

\* the document the improvement prompt is built from
RevisionSource_best == best_content
RevisionSource == content

\* the document written to FINAL.md and returned as best_content
FinalContent_last == content
FinalContent == best_content

\* if OUTPUT["save_all_versions"]: v{i}.md and v{i}_score.json are written
SaveVersion_off(files, doc, rep) == files
SaveVersion(files, doc, rep) ==
    Append(files, [md |-> doc, score_json |-> to_dict(rep)])

\* where control goes when call_claude raises: nothing catches it
CallFailurePc_swallow == "loop"
CallFailurePc == "aborted"

(***************************************************************************)
(* Init: before run_optimization is called                                 *)
(***************************************************************************)
\* extract_markdown has not been called
ExtractIdle ==
    /\ response = <<>>
    /\ extracted = <<>>

\* markdown_to_html has not been called
HtmlIdle ==
    /\ lines = <<>>
    /\ line_no = 0
    /\ html_lines = <<>>
    /\ in_ul = FALSE
    /\ in_ol = FALSE
    /\ in_paragraph = FALSE
    /\ paragraph_lines = 0
    /\ returned = FALSE

ToolsIdle == ExtractIdle /\ HtmlIdle

RunInit ==
    /\ pc = "start"
    /\ iterations = 0
    /\ i = 0
    /\ content = NoDoc
    /\ report = NoReport
    /\ history = <<>>
    /\ best_content = NoDoc
    /\ best_score = 0
    /\ best_iteration = 0
    /\ plateau_count = 0
    /\ requests = <<>>
    /\ versions = <<>>
    /\ final_md = <<>>
    /\ run_summary = <<>>
    /\ result = <<>>
    /\ error = "none"
    /\ requested = NoArg
    /\ batch_pc = "idle"
    /\ batch_args = <<>>
    /\ results = <<>>
    /\ run_calls = <<>>

\* score_post has not been called
ScoreIdle ==
    /\ post = EmptyPost
    /\ hash_seed = CHOOSE q \in HashSeeds : TRUE
    /\ reports = <<>>
    /\ prompt = <<>>

Init ==
    /\ RunInit
    /\ zero_weight \in BOOLEAN
    /\ ScoreIdle
    /\ ToolsIdle


(***************************************************************************)
(* run_optimization up to the first call_claude                            *)
(***************************************************************************)
Start(content_type, arg) ==
    /\ pc = "start"
    /\ IF content_type \notin CONTENT_TYPES
       THEN /\ pc' = "exited"
            /\ error' = "SystemExit"
            /\ UNCHANGED <<iterations, requests>>
       ELSE /\ iterations' = ClampIterations(arg)
            /\ requests' = <<[kind |-> "generation"]>>
            /\ pc' = "generating"
            /\ UNCHANGED error
    /\ UNCHANGED <<i, content, report, history, best_content, best_score,
                   best_iteration, plateau_count, versions, final_md,
                   run_summary, result>>
    /\ requested' = arg
    /\ UNCHANGED <<zero_weight, batchVars, scoreVars, toolVars>>

(***************************************************************************)
(* call_claude for v0 returns: extract, score, save, seed history and best *)
(***************************************************************************)
GenerationReturns(resp) ==
    /\ pc = "generating"
    /\ LET doc == Document(0, resp)
           rep == score_post(doc, 0)
       IN  IF ScorePostRaises(doc)
           THEN /\ pc' = "aborted"
                /\ error' = ScorePostError(doc)
                /\ content' = doc
                /\ UNCHANGED <<report, history, best_content, best_score,
                               versions>>
           ELSE /\ content' = doc
                /\ report' = rep
                /\ versions' = SaveVersion(<<>>, doc, rep)
                /\ history' = <<[iteration |-> 0, score |-> rep.total_score]>>
                /\ best_content' = doc
                /\ best_score' = rep.total_score
                /\ pc' = "loop"
                /\ UNCHANGED error
    /\ best_iteration' = 0
    /\ plateau_count' = 0
    /\ UNCHANGED <<iterations, i, requests, final_md, run_summary, result>>
    /\ UNCHANGED <<requested, zero_weight, batchVars, scoreVars, toolVars>>

\* call_claude for v0 raises
GenerationFails ==
    /\ pc = "generating"
    /\ pc' = CallFailurePc
    /\ error' = "APIError"
    /\ UNCHANGED <<iterations, i, content, report, history, best_content,
                   best_score, best_iteration, plateau_count, requests,
                   versions, final_md, run_summary, result>>
    /\ UNCHANGED <<requested, zero_weight, batchVars, scoreVars, toolVars>>

(***************************************************************************)
(* Loop header and the improvement prompt: the next call_claude is issued  *)
(***************************************************************************)
RequestRevision ==
    /\ pc = "loop"
    /\ LoopContinues(i, iterations)
    /\ i' = i + 1
    /\ requests' = Append(requests,
                          [kind |-> "improvement",
                           content |-> RevisionSource,
                           report |-> to_dict(report),
                           iteration |-> i + 1])
    /\ pc' = "revising"
    /\ UNCHANGED <<iterations, content, report, history, best_content,
                   best_score, best_iteration, plateau_count, versions,
                   final_md, run_summary, result, error>>
    /\ UNCHANGED <<requested, zero_weight, batchVars, scoreVars, toolVars>>

(***************************************************************************)
(* call_claude for revision i returns: the rest of the loop body           *)
(***************************************************************************)
RevisionReturns(resp) ==
    /\ pc = "revising"
    /\ LET new_content == Document(i, resp)
           new_report == score_post(new_content, i)
           improvement == Improvement(new_report.total_score,
                                      report.total_score)
           isBest == IsNewBest(new_report.total_score, best_score)
           plateau == NextPlateau(isBest, improvement, plateau_count)
       IN  IF ScorePostRaises(new_content)
           THEN /\ pc' = "aborted"
                /\ error' = ScorePostError(new_content)
                /\ UNCHANGED <<content, report, history, best_content,
                               best_score, best_iteration, plateau_count,
                               versions>>
           ELSE /\ versions' = SaveVersion(versions, new_content, new_report)
                /\ history' = Append(history,
                                     [iteration |-> i,
                                      score |-> new_report.total_score,
                                      improvement |-> improvement])
                /\ IF isBest
                   THEN /\ best_content' = new_content
                        /\ best_score' = new_report.total_score
                        /\ best_iteration' = i
                   ELSE UNCHANGED <<best_content, best_score, best_iteration>>
                /\ plateau_count' = plateau
                /\ content' = new_content
                /\ report' = new_report
                /\ pc' = IF PlateauReached(plateau) THEN "finalize" ELSE "loop"
                /\ UNCHANGED error
    /\ UNCHANGED <<iterations, i, requests, final_md, run_summary, result>>
    /\ UNCHANGED <<requested, zero_weight, batchVars, scoreVars, toolVars>>

\* call_claude for revision i raises
RevisionFails ==
    /\ pc = "revising"
    /\ pc' = CallFailurePc
    /\ error' = "APIError"
    /\ UNCHANGED <<iterations, i, content, report, history, best_content,
                   best_score, best_iteration, plateau_count, requests,
                   versions, final_md, run_summary, result>>
    /\ UNCHANGED <<requested, zero_weight, batchVars, scoreVars, toolVars>>

(***************************************************************************)
(* FINALIZE: after the loop ran out or broke                               *)
(***************************************************************************)
Finalize ==
    /\ \/ pc = "finalize"
       \/ pc = "loop" /\ ~LoopContinues(i, iterations)
    /\ final_md' = <<FinalContent>>
    /\ run_summary' = <<[best_score |-> best_score,
                         best_iteration |-> best_iteration,
                         total_iterations |-> Len(history) - 1,
                         history |-> history]>>
    /\ result' = <<[best_content |-> FinalContent,
                    best_score |-> best_score,
                    best_iteration |-> best_iteration,
                    all_scores |-> [k \in 1..Len(history) |-> history[k].score],
                    iterations_run |-> Len(history) - 1,
                    improvement_history |-> history]>>
    /\ pc' = "done"
    /\ UNCHANGED <<iterations, i, content, report, history, best_content,
                   best_score, best_iteration, plateau_count, requests,
                   versions, error>>
    /\ UNCHANGED <<requested, zero_weight, batchVars, scoreVars, toolVars>>

Next ==
    \/ \E ct \in ContentTypeArgs, arg \in IterationsArgs : Start(ct, arg)
    \/ \E resp \in Responses : GenerationReturns(resp)
    \/ GenerationFails
    \/ RequestRevision
    \/ \E resp \in Responses : RevisionReturns(resp)
    \/ RevisionFails
    \/ Finalize

Spec == Init /\ [][Next]_vars

\* The interpreter keeps executing, and a blocking call_claude either returns
\* or raises.
FairSpec == Spec /\ WF_vars(Next)

(***************************************************************************)
(* Properties of run_optimization                                          *)
(***************************************************************************)
ScoresOf(h) == [k \in 1..Len(h) |-> h[k].score]

Prefix(s, n) == SubSeq(s, 1, n)

IsPrefixOf(s, t) == Len(s) <= Len(t) /\ Prefix(t, Len(s)) = s

RECURSIVE MaxOf(_)
MaxOf(s) ==
    IF Len(s) = 1 THEN s[1]
    ELSE LET m == MaxOf(Prefix(s, Len(s) - 1))
         IN  IF Last(s) > m THEN Last(s) ELSE m

StrictlyIncreasing(s) == \A k \in 1..(Len(s) - 1) : s[k] < s[k + 1]

\* iteration 0 has been scored and the run has not been aborted since
Scored == pc \in {"loop", "revising", "finalize", "done"}

\* the loop has been left normally
Stopped == pc \in {"finalize", "done"}

\* between iterations: the last response has been processed completely
AtRest == pc \in {"loop", "finalize", "done"}

\* 70, 68, 65, 90, 80, 79
PlateauExample == <<7000, 6800, 6500, 9000, 8000, 7900>>

\* the same with the second dip left out: 70, 68, 90, 80, 79
ShortDipExample == <<7000, 6800, 9000, 8000, 7900>>

\* C1 (as stated): with patience 2 and a cap of at least 5, a run scoring
\* 70, 68, 65, 90, 80, 79 goes on until the revision scoring 79 has been
\* processed, and stops there with best_score = 90 and best_iteration = 3.
C1_StopsAfter79 ==
    \A k \in 1..Len(PlateauExample) :
        (/\ iterations >= 5
         /\ AtRest
         /\ ScoresOf(history) = Prefix(PlateauExample, k))
        => /\ Stopped <=> k = Len(PlateauExample)
           /\ k = Len(PlateauExample)
                  => best_score = 9000 /\ best_iteration = 3

\* C1 (amended): with patience 2 and a cap of at least 5, a run whose scores
\* begin 70, 68, 65 stops after processing the revision scoring 65 with
\* best_score = 70 and best_iteration = 0, and requests no further revision;
\* a run scoring 70, 68, 90, 80, 79 stops after processing 79 with
\* best_score = 90 and best_iteration = 2.
C1_StopsAtSecondDip ==
    /\ LET n == Min(Len(history), 3)
       IN  (/\ iterations >= 5
            /\ Scored
            /\ Prefix(ScoresOf(history), n) = Prefix(PlateauExample, n))
           => /\ Len(history) <= 3
              /\ Len(requests) <= 3
              /\ AtRest => (Stopped <=> Len(history) = 3)
              /\ Len(history) = 3
                     => /\ best_score = 7000
                        /\ best_iteration = 0
                        /\ plateau_count = plateau_patience
    /\ \A k \in 1..Len(ShortDipExample) :
        (/\ iterations >= 5
         /\ AtRest
         /\ ScoresOf(history) = Prefix(ShortDipExample, k))
        => /\ Stopped <=> k = Len(ShortDipExample)
           /\ k = Len(ShortDipExample)
                  => best_score = 9000 /\ best_iteration = 2

C1_Witness ==
    /\ pc = "done"
    /\ iterations = 5
    /\ ScoresOf(history) = Prefix(PlateauExample, 3)
    /\ best_score = 7000
    /\ best_iteration = 0

\* C3: after every scored iteration best_score is the maximum total score
\* recorded so far, best_iteration is the earliest iteration that reached it,
\* and best_content is the document of that iteration.
C3_BestIsEarliestMax ==
    Scored =>
        /\ Len(history) >= 1
        /\ best_score = MaxOf(ScoresOf(history))
        /\ best_iteration \in 0..(Len(history) - 1)
        /\ history[best_iteration + 1].score = best_score
        /\ \A k \in 1..best_iteration : history[k].score < best_score
        /\ best_content = versions[best_iteration + 1].md
        /\ best_content.id = best_iteration

\* a new best by less than improvement_threshold, followed by an equal score
C3_Witness ==
    /\ AtRest
    /\ Len(history) >= 3
    /\ best_iteration = Len(history) - 2
    /\ best_score - MaxOf(Prefix(ScoresOf(history), best_iteration))
           < improvement_threshold
    /\ Last(history).score = best_score

\* C4: when run_optimization has returned, FINAL.md and the returned
\* best_content hold the document produced at best_iteration, the reported
\* best_score is at least every score of the history, and when the last
\* iteration scored below the best the final artifact is not the last document.
C4_FinalIsBest ==
    pc = "done" =>
        /\ final_md = <<versions[best_iteration + 1].md>>
        /\ final_md[1].id = best_iteration
        /\ result[1].best_content = final_md[1]
        /\ result[1].best_iteration = best_iteration
        /\ result[1].best_score = history[best_iteration + 1].score
        /\ \A k \in 1..Len(history) : result[1].best_score >= history[k].score
        /\ Last(history).score < result[1].best_score
               => final_md[1] # Last(versions).md

C4_Witness ==
    /\ pc = "done"
    /\ Len(history) >= 2
    /\ Last(history).score < best_score
    /\ best_iteration >= 1

\* the plateau counter after the last iteration of a score sequence, counted
\* as the specification defines it: consecutive iterations with no new best
RECURSIVE PlateauOf(_)
PlateauOf(s) ==
    IF Len(s) = 1 THEN 0
    ELSE IF Last(s) > MaxOf(Prefix(s, Len(s) - 1)) THEN 0
         ELSE PlateauOf(Prefix(s, Len(s) - 1)) + 1

\* revision k is requested only within the cap and while the plateau counter
\* stayed below patience after every earlier iteration; the loop is left
\* exactly when the counter reaches patience or the cap is used up
C2_LoopBounds ==
    /\ \A k \in 2..Len(requests) :
        /\ requests[k].iteration = k - 1
        /\ k - 1 <= iterations
        /\ Len(history) >= k - 1
        /\ \A j \in 1..(k - 1) :
               PlateauOf(Prefix(ScoresOf(history), j)) < plateau_patience
    /\ Stopped =>
           \/ PlateauOf(ScoresOf(history)) = plateau_patience
           \/ Len(history) - 1 >= iterations
    /\ pc = "finalize" => PlateauOf(ScoresOf(history)) = plateau_patience
    /\ (pc = "loop" /\ LoopContinues(i, iterations)) =>
           /\ PlateauOf(ScoresOf(history)) < plateau_patience
           /\ Len(history) - 1 < iterations

\* C2: revision i is requested only if i <= cap and the plateau counter was
\* below patience after every earlier iteration, the loop ends at the first
\* iteration where the counter reaches patience or after iteration cap, and a
\* run does not end short of DONE unless a collaborator call failed.
C2_EndsInDoneUnlessCallFails ==
    /\ C2_LoopBounds
    /\ pc \in {"aborted"} => error = "APIError"

\* C5: while the total scores are strictly increasing the plateau counter is
\* 0, the break is never taken, best_iteration is the last iteration, and the
\* run returns after exactly `iterations` revisions.
C5_IncreasingRunsToCap ==
    (/\ Scored
     /\ iterations >= 0
     /\ StrictlyIncreasing(ScoresOf(history)))
    => /\ plateau_count = 0
       /\ pc # "finalize"
       /\ best_iteration = Len(history) - 1
       /\ Len(history) - 1 <= iterations
       /\ pc = "done" =>
              /\ Len(history) - 1 = iterations
              /\ result[1].iterations_run = iterations
              /\ Len(requests) = iterations + 1

C5_Witness ==
    /\ pc = "done"
    /\ iterations = 5
    /\ StrictlyIncreasing(ScoresOf(history))
    /\ Len(history) = 6
    /\ best_iteration = 5

\* C6: every history record of an iteration >= 1 carries improvement = its
\* score minus the score of the record before it, and record 0 carries none.
C6_ImprovementOverPrevious ==
    Scored =>
        /\ "improvement" \notin DOMAIN history[1]
        /\ \A k \in 2..Len(history) :
               /\ "improvement" \in DOMAIN history[k]
               /\ history[k].improvement
                      = history[k].score - history[k - 1].score

\* a positive improvement in an iteration that is no new best
C6_Witness ==
    /\ AtRest
    /\ Len(history) >= 3
    /\ Last(history).improvement > 0
    /\ Last(history).score < best_score
    /\ best_iteration < Len(history) - 1
    /\ plateau_count >= 1

\* C7: after every scored iteration i the plateau counter is i minus
\* best_iteration, and it is 0 exactly when iteration i is the best one.
C7_PlateauIsDistanceToBest ==
    /\ Scored => plateau_count = (Len(history) - 1) - best_iteration
    /\ AtRest =>
           /\ i = (IF Len(history) = 1 THEN 0 ELSE Len(history) - 1)
           /\ plateau_count = PlateauOf(ScoresOf(history))
           /\ plateau_count = 0 <=> best_iteration = Len(history) - 1

\* two iterations after a new best, the second one better than the first
C7_Witness ==
    /\ AtRest
    /\ best_iteration >= 1
    /\ plateau_count = 2
    /\ Last(history).improvement > 0

\* the last iteration scored lower than the one before it, and is the best
LowerThanPreviousYetNewBest ==
    /\ AtRest
    /\ Len(history) >= 2
    /\ Last(history).score < history[Len(history) - 1].score
    /\ best_iteration = Len(history) - 1
    /\ plateau_count = 0

\* C8 (as stated): a step is taken in which an iteration scores lower than
\* the iteration before it and still is a new best that resets the plateau
\* counter to 0.
C8_DipRecoveryResets == <>LowerThanPreviousYetNewBest

\* C8 (amended): an iteration that scores lower than the iteration before it
\* is never a new best: it leaves best unchanged and increments the plateau
\* counter, also when it scores higher than an earlier dip.
C8_LowerNeverResets ==
    [][(/\ pc = "revising"
        /\ Len(history') = Len(history) + 1
        /\ Last(history').score < Last(history).score)
       => /\ plateau_count' = plateau_count + 1
          /\ UNCHANGED <<best_content, best_score, best_iteration>>]_vars

\* lower than the iteration before, higher than an earlier dip, not a new best
C8_Witness ==
    /\ AtRest
    /\ Len(history) >= 3
    /\ Last(history).score < history[Len(history) - 1].score
    /\ \E k \in 1..(Len(history) - 2) : history[k].score < Last(history).score
    /\ best_iteration < Len(history) - 1
    /\ plateau_count = 1

\* C9: the request of revision i carries the document and the report of
\* iteration i-1, is issued when iteration i-1 has been scored and recorded,
\* and carries the best document only when that is the most recent one.
C9_RevisionFromMostRecent ==
    /\ \A k \in 2..Len(requests) :
        /\ requests[k].kind = "improvement"
        /\ requests[k].iteration = k - 1
        /\ Len(versions) >= k - 1
        /\ Len(history) >= k - 1
        /\ requests[k].content = versions[k - 1].md
        /\ requests[k].content.id = k - 2
        /\ requests[k].report = versions[k - 1].score_json
        /\ requests[k].report.iteration = k - 2
        /\ requests[k].report.total_score = Round1(history[k - 1].score)
    /\ pc = "revising" =>
        /\ Len(requests) = i + 1
        /\ Len(history) = i
        /\ Last(requests).content = content
        /\ Last(requests).content = best_content <=> best_iteration = i - 1

\* a revision requested from a document that scores below the best
C9_Witness ==
    /\ pc = "revising"
    /\ best_iteration < i - 1
    /\ Last(requests).content.total < best_score
    /\ Last(requests).content # best_content

\* one call_claude per iteration, none repeated
OneCallPerIteration ==
    /\ Len(requests) = (IF pc \in {"start", "exited"} THEN 0 ELSE i + 1)
    /\ Len(requests) >= 1 => requests[1].kind = "generation"
    /\ \A k \in 2..Len(requests) :
           requests[k].kind = "improvement" /\ requests[k].iteration = k - 1
    /\ Len(history) <= Len(requests)
    /\ Len(requests) <= Len(history) + 1
    /\ AtRest => Len(requests) = Len(history)
    /\ error = "APIError" =>
           /\ pc = "aborted"
           /\ Len(requests) = Len(history) + 1
           /\ result = <<>>
           /\ final_md = <<>>
           /\ run_summary = <<>>

\* C10: run_optimization calls the collaborator exactly once per iteration;
\* after a failed call it makes no further call and returns no result, the
\* exception leaves run_optimization.
C10_NoRetry ==
    /\ []OneCallPerIteration
    /\ [][error # "none" => UNCHANGED <<requests, result, error>>]_vars

\* a revision call failed after v0 was scored
C10_Witness ==
    /\ error = "APIError"
    /\ pc = "aborted"
    /\ Len(history) >= 1
    /\ Len(requests) = Len(history) + 1

\* C12: a response that is unusable as a document (the empty text, a text
\* without a preamble block) is fatal to the run: it is never scored and
\* saved, never recorded in the history, never the best or final document.
C12_UnusableResponseIsFatal ==
    /\ \A k \in 1..Len(versions) : versions[k].md.has_preamble
    /\ Len(history) = Len(versions)
    /\ Scored => content.has_preamble /\ best_content.has_preamble
    /\ final_md # <<>> => final_md[1].has_preamble

\* C13: with a configuration error (an unknown content type, a category of
\* weight zero) no generation request is sent and no document is scored.
C13_ConfigErrorBeforeAnyCall ==
    /\ pc = "exited" =>
           /\ error = "SystemExit"
           /\ requests = <<>>
           /\ content = NoDoc
           /\ versions = <<>>
    /\ zero_weight =>
           /\ requests = <<>>
           /\ content = NoDoc
           /\ versions = <<>>

(***************************************************************************)
(* batch.py: main                                                          *)
(***************************************************************************)
\* largest number of communities on the command line
MaxCommunities == 2

\* --communities: non-empty lists of names, repetitions allowed
CommunityLists ==
    UNION {[1..n -> CommunityNames] : n \in 1..MaxCommunities}

\* --iterations
BatchIterationsArgs == {0, 1}

\* what the collaborator returns in the runs of a batch
BatchResponses ==
    {r \in Responses : r.total \in {0, 7000, 9000}}

\* except Exception: SystemExit is no Exception
CaughtByBatch_none(err) == FALSE
CaughtByBatch(err) == err # "SystemExit"

\* argument parsing; neither --communities nor --all: sys.exit(1)
BatchBegin(ct, comms, iters) ==
    /\ batch_pc = "idle"
    /\ pc = "start"
    /\ IF comms = <<>>
       THEN /\ batch_pc' = "exited"
            /\ UNCHANGED batch_args
       ELSE /\ batch_pc' = "loop"
            /\ batch_args' = [content_type |-> ct, communities |-> comms,
                              iterations |-> iters]
    /\ UNCHANGED <<runVars, zero_weight, results, run_calls>>
    /\ UNCHANGED <<scoreVars, toolVars>>

\* for i, community in enumerate(communities, 1): run_optimization is called,
\* with fresh locals and its own run directory
BatchCallRun ==
    /\ batch_pc = "loop"
    /\ Len(run_calls) < Len(batch_args.communities)
    /\ run_calls' = Append(run_calls,
                           batch_args.communities[Len(run_calls) + 1])
    /\ batch_pc' = "in_run"
    /\ pc' = "start"
    /\ iterations' = 0
    /\ i' = 0
    /\ content' = NoDoc
    /\ report' = NoReport
    /\ history' = <<>>
    /\ best_content' = NoDoc
    /\ best_score' = 0
    /\ best_iteration' = 0
    /\ plateau_count' = 0
    /\ requests' = <<>>
    /\ versions' = <<>>
    /\ final_md' = <<>>
    /\ run_summary' = <<>>
    /\ result' = <<>>
    /\ error' = "none"
    /\ requested' = NoArg
    /\ UNCHANGED <<zero_weight, batch_args, results>>
    /\ UNCHANGED <<scoreVars, toolVars>>

\* run_optimization(community, content_type, iterations, model, verbose=True)
BatchRunStart ==
    /\ batch_pc = "in_run"
    /\ Start(batch_args.content_type,
             [given |-> TRUE, value |-> batch_args.iterations])

\* run_optimization returned: the success record
BatchRunReturns ==
    /\ batch_pc = "in_run"
    /\ pc = "done"
    /\ LET res == result[1]
           n == Len(res.all_scores)
       IN  results' = Append(results,
               [community |-> Last(run_calls),
                status |-> "success",
                best_score |-> res.best_score,
                iterations |-> res.iterations_run,
                improvement |->
                    IF n > 1 THEN res.all_scores[n] - res.all_scores[1] ELSE 0])
    /\ batch_pc' = "loop"
    /\ UNCHANGED <<runVars, zero_weight, batch_args, run_calls>>
    /\ UNCHANGED <<scoreVars, toolVars>>

\* run_optimization raised: the error record, or the exception leaves main
BatchRunRaises ==
    /\ batch_pc = "in_run"
    /\ pc \in {"aborted", "exited"}
    /\ IF CaughtByBatch(error)
       THEN /\ results' = Append(results,
                                 [community |-> Last(run_calls),
                                  status |-> "error",
                                  error |-> error])
            /\ batch_pc' = "loop"
       ELSE /\ batch_pc' = "exited"
            /\ UNCHANGED results
    /\ UNCHANGED <<runVars, zero_weight, batch_args, run_calls>>
    /\ UNCHANGED <<scoreVars, toolVars>>

\* after the loop: the summary is printed and the batch report written
BatchReport ==
    /\ batch_pc = "loop"
    /\ Len(run_calls) = Len(batch_args.communities)
    /\ batch_pc' = "reported"
    /\ UNCHANGED <<runVars, zero_weight, batch_args, results, run_calls>>
    /\ UNCHANGED <<scoreVars, toolVars>>

BatchNext ==
    \/ \E ct \in ContentTypeArgs, comms \in CommunityLists \cup {<<>>},
          iters \in BatchIterationsArgs : BatchBegin(ct, comms, iters)
    \/ BatchCallRun
    \/ BatchRunStart
    \/ \E resp \in BatchResponses : GenerationReturns(resp)
    \/ GenerationFails
    \/ RequestRevision
    \/ \E resp \in BatchResponses : RevisionReturns(resp)
    \/ RevisionFails
    \/ Finalize
    \/ BatchRunReturns
    \/ BatchRunRaises
    \/ BatchReport

BatchSpec == Init /\ [][BatchNext]_vars

\* C11: a failed run gives an error record carrying the error and does not
\* end the batch: run_optimization is called for every community in input
\* order, and the finished batch holds one record per community, in order.
C11_BatchContinuesAfterFailure ==
    /\ Len(results) <= Len(run_calls)
    /\ Len(run_calls) <= Len(results) + 1
    /\ batch_pc \in {"loop", "reported"} => Len(results) = Len(run_calls)
    /\ batch_pc # "idle" /\ batch_args # <<>> =>
           /\ Len(run_calls) <= Len(batch_args.communities)
           /\ \A k \in 1..Len(run_calls) :
                  run_calls[k] = batch_args.communities[k]
    /\ \A k \in 1..Len(results) :
           /\ results[k].community = run_calls[k]
           /\ results[k].status \in {"success", "error"}
           /\ results[k].status = "error" =>
                  results[k].error
                      \in {"APIError", "AttributeError", "ZeroDivisionError"}
    /\ batch_pc = "reported" => Len(results) = Len(batch_args.communities)
    /\ (batch_pc = "loop" /\ results # <<>> /\ pc = "aborted") =>
           /\ Last(results).status = "error"
           /\ Last(results).error = error
    /\ (batch_pc = "loop" /\ results # <<>> /\ pc = "done") =>
           Last(results).status = "success"
    /\ (batch_pc = "exited" /\ batch_args # <<>>) => error = "SystemExit"

\* the first run failed in the collaborator, the second one succeeded
C11_Witness ==
    /\ batch_pc = "reported"
    /\ Len(results) = 2
    /\ results[1].status = "error"
    /\ results[1].error = "APIError"
    /\ results[2].status = "success"
    /\ results[1].community # results[2].community

(***************************************************************************)
(* scoring.py: the ten rules and score_post                                *)
(*                                                                         *)
(* A score is an integer number of 1/ScoreScale points: every product of a *)
(* weight with the fractions the rules use (1/3, 1/4, 1/5, 1/7, 0.2 .. 0.7,*)
(* the word-count ratios k/700 and k/1000) is exact in this unit.  A       *)
(* percentage is in 1/ScoreScale percent.                                  *)
(***************************************************************************)
ScoreScale == 4200

\* a finding or suggestion text: the fixed wording and the values put in it
Msg(tag, args) == [msg |-> tag, args |-> args]

\* cfg["weight"] in score units
Weight(category) ==
    IF category = "word_count" /\ zero_weight THEN 0
    ELSE SCORING[category].weight * ScoreScale

\* per_check = weight / n
PerCheck_over(weight, n) == weight \div (n - 1)
PerCheck(weight, n) == weight \div n

\* x * num / den
Times_inverted(x, num, den) == (x * (den - num)) \div den
Times_flat(x, num, den) == x \div 2
Times(x, num, den) == (x * num) \div den

\* what one check of a rule adds: points, findings, suggestions
Chk(p, f, g) == [points |-> p, findings |-> f, suggestions |-> g]

RECURSIVE SumPoints(_)
SumPoints(cs) == IF cs = <<>> THEN 0 ELSE cs[1].points + SumPoints(Tail(cs))

RECURSIVE AllFindings(_)
AllFindings(cs) ==
    IF cs = <<>> THEN <<>> ELSE cs[1].findings \o AllFindings(Tail(cs))

RECURSIVE AllSuggestions(_)
AllSuggestions(cs) ==
    IF cs = <<>> THEN <<>> ELSE cs[1].suggestions \o AllSuggestions(Tail(cs))

RECURSIVE SumSeq(_)
SumSeq(q) == IF q = <<>> THEN 0 ELSE q[1] + SumSeq(Tail(q))

RECURSIVE SumSquares(_)
SumSquares(q) == IF q = <<>> THEN 0 ELSE q[1] * q[1] + SumSquares(Tail(q))

\* the heading lines the startswith tests recognise: "# ", "## ", "### "
\* and "#### "; a line of five or six '#' matches none of them
Recognised(hs) == SelectSeq(hs, LAMBDA level : level <= 4)

\* len(headings["h<level>"])
CountLevel(hs, level) == Cardinality({k \in DOMAIN hs : hs[k] = level})

\* a rule raised instead of returning
Raised(category, exc) ==
    [category |-> category, raises |-> exc, score |-> 0, max_score |-> 0,
     percentage |-> 0, findings |-> <<>>, suggestions |-> <<>>]

\* ScoreDetail(category, score=points, max_score=weight,
\*             percentage=(points / weight) * 100, findings, suggestions)
Detail(category, weight, cs) ==
    IF weight = 0 THEN Raised(category, "ZeroDivisionError")
    ELSE [category |-> category, raises |-> "none",
          score |-> SumPoints(cs), max_score |-> weight,
          percentage |-> (SumPoints(cs) * 100) \div (weight \div ScoreScale),
          findings |-> AllFindings(cs), suggestions |-> AllSuggestions(cs)]

\* .lower() works on the value frontmatter.get(key, "") returns
IsText(kind) == kind \in {"absent", "empty", "text"}

\* the value is truthy
Truthy(kind) == kind \in {"number", "text"}

score_word_count(d) ==
    LET cfg == SCORING.word_count
        weight == Weight("word_count")
        wc == d.wc
        measured == Chk(0, <<Msg("Word count", <<wc>>)>>, <<>>)
        band ==
            IF cfg.target_min <= wc /\ wc <= cfg.target_max
            THEN Chk(weight, <<Msg("Within target range", <<>>)>>, <<>>)
            ELSE IF cfg.hard_min <= wc /\ wc < cfg.target_min
            THEN Chk(Times(weight, 1, 2)
                        + Times(weight, wc - cfg.hard_min,
                                2 * (cfg.target_min - cfg.hard_min)),
                     <<>>,
                     <<Msg("Add more words", <<cfg.target_min - wc>>)>>)
            ELSE IF cfg.target_max < wc /\ wc <= cfg.hard_max
            THEN Chk(Times(weight, 1, 2)
                        + Times(weight, cfg.hard_max - wc,
                                2 * (cfg.hard_max - cfg.target_max)),
                     <<>>,
                     <<Msg("Trim words", <<wc - cfg.target_max>>)>>)
            ELSE Chk(Times(weight, 2, 10), <<>>,
                     IF wc < cfg.hard_min
                     THEN <<Msg("Significantly below minimum", <<>>)>>
                     ELSE <<Msg("Significantly over maximum", <<>>)>>)
    IN  Detail("Word Count", weight, <<measured, band>>)

\* kw_count * kw_word_count: the words of the body that belong to an
\* occurrence of the keyword phrase
KeywordWords_phrases(d) == d.kw_count
KeywordWords(d) == d.kw_count * d.kw_words

\* the density check: density = kw_count * kw_word_count / total_words is
\* compared with the targets, which are in thousandths
DensityCheck(d, per_check) ==
    LET cfg == SCORING.keyword_optimization
        occ == KeywordWords(d)
        density_msg == Msg("Keyword density", <<occ, d.wc>>)
    IN  IF d.wc > 0
        THEN IF /\ cfg.target_density_min * d.wc <= 1000 * occ
                /\ 1000 * occ <= cfg.target_density_max * d.wc
             THEN Chk(per_check,
                      <<density_msg,
                        Msg("Keyword density in optimal range", <<>>)>>,
                      <<>>)
             ELSE IF 1000 * occ < cfg.target_density_min * d.wc
             THEN Chk(Times(per_check, 4, 10), <<density_msg>>,
                      <<Msg("Increase keyword usage", <<occ, d.wc>>)>>)
             ELSE Chk(Times(per_check, 3, 10), <<density_msg>>,
                      <<Msg("Reduce keyword stuffing", <<occ, d.wc>>)>>)
        ELSE Chk(0, <<>>, <<>>)

score_keyword_optimization(d) ==
    LET cfg == SCORING.keyword_optimization
        weight == Weight("keyword_optimization")
        per_check == PerCheck(weight, 5)
        in_title ==
            IF d.title_kw
            THEN Chk(per_check,
                     <<Msg("Primary keyword in title", <<>>)>>, <<>>)
            ELSE Chk(0, <<Msg("Primary keyword missing from title", <<>>)>>,
                     <<Msg("Include keyword in the post title", <<>>)>>)
        in_first_100 ==
            IF d.kw_first100
            THEN Chk(per_check,
                     <<Msg("Keyword in first 100 words", <<>>)>>, <<>>)
            ELSE Chk(0, <<Msg("Keyword missing from first 100 words", <<>>)>>,
                     <<Msg("Mention keyword within the first 100 words",
                           <<>>)>>)
        in_headings ==
            IF d.kw_headings
            THEN Chk(per_check,
                     <<Msg("Keyword appears in headings", <<>>)>>, <<>>)
            ELSE Chk(0, <<Msg("Keyword missing from all headings", <<>>)>>,
                     <<Msg("Use keyword in at least one H2 subheading",
                           <<>>)>>)
        density == DensityCheck(d, per_check)
        in_meta ==
            IF d.desc_kw
            THEN Chk(per_check,
                     <<Msg("Keyword in meta description", <<>>)>>, <<>>)
            ELSE Chk(0, <<Msg("Keyword missing from meta description", <<>>)>>,
                     <<Msg("Include keyword in the meta description", <<>>)>>)
    IN  IF d.fm = "not_mapping" \/ ~IsText(d.title) \/ ~IsText(d.description)
        THEN Raised("Keyword Optimization", "AttributeError")
        ELSE Detail("Keyword Optimization", weight,
                    <<in_title, in_first_100, in_headings, density, in_meta>>)

\* the loop over the lines of the body: hierarchy_ok after the headings
\* from position k on, given the value so far and the level seen last
RECURSIVE WalkHeadings(_, _, _, _)
WalkHeadings(hs, k, last_level, hierarchy_ok) ==
    IF k > Len(hs) THEN hierarchy_ok
    ELSE WalkHeadings(hs, k + 1, hs[k],
                      IF hs[k] > last_level + 1 /\ last_level > 0
                      THEN FALSE ELSE hierarchy_ok)

\* the hierarchy check: full share if hierarchy_ok, else 0.3 of it
HierarchyCheck(hs, per_check) ==
    IF WalkHeadings(Recognised(hs), 1, 0, TRUE)
    THEN Chk(per_check, <<Msg("Heading hierarchy is logical", <<>>)>>, <<>>)
    ELSE Chk(Times(per_check, 3, 10), <<>>,
             <<Msg("Fix heading hierarchy", <<>>)>>)

score_heading_structure(d) ==
    LET cfg == SCORING.heading_structure
        weight == Weight("heading_structure")
        per_check == PerCheck(weight, 4)
        h1_count == CountLevel(d.headings, 1)
        h2_count == CountLevel(d.headings, 2)
        h3_count == CountLevel(d.headings, 3)
        h1 ==
            IF h1_count <= 1
            THEN Chk(per_check, <<Msg("H1 count appropriate", <<h1_count>>)>>,
                     <<>>)
            ELSE Chk(0, <<Msg("Multiple H1 tags", <<h1_count>>)>>,
                     <<Msg("Reduce to 1 H1 tag", <<h1_count>>)>>)
        h2_msg == Msg("H2 count", <<h2_count>>)
        h2 ==
            IF /\ cfg.target_h2_count_min <= h2_count
               /\ h2_count <= cfg.target_h2_count_max
            THEN Chk(per_check,
                     <<h2_msg, Msg("H2 count in target range", <<>>)>>, <<>>)
            ELSE IF h2_count > 0
            THEN Chk(Times(per_check, 5, 10), <<h2_msg>>,
                     IF h2_count < cfg.target_h2_count_min
                     THEN <<Msg("Add more H2 sections", <<h2_count>>)>>
                     ELSE <<Msg("Consolidate sections", <<h2_count>>)>>)
            ELSE Chk(0, <<h2_msg>>, <<Msg("Add H2 subheadings", <<>>)>>)
        h3_msg == Msg("H3 count", <<h3_count>>)
        h3 ==
            IF h3_count >= cfg.target_h3_count_min
            THEN Chk(per_check,
                     <<h3_msg, Msg("Content has sub-section depth", <<>>)>>,
                     <<>>)
            ELSE IF h3_count > 0
            THEN Chk(Times(per_check, 6, 10), <<h3_msg>>,
                     <<Msg("Add more H3 sub-sections", <<h3_count>>)>>)
            ELSE Chk(0, <<h3_msg>>,
                     <<Msg("Add H3 sub-sections under H2s", <<>>)>>)
        hierarchy == HierarchyCheck(d.headings, per_check)
    IN  Detail("Heading Structure", weight, <<h1, h2, h3, hierarchy>>)

score_readability(d) ==
    LET cfg == SCORING.readability
        weight == Weight("readability")
        per_check == PerCheck(weight, 3)
        n == Len(d.sentences)
        total == SumSeq(d.sentences)
        len_msg == Msg("Average sentence length", <<total, n>>)
        sentence_length ==
            IF n > 0
            THEN IF /\ cfg.target_avg_sentence_length_min * n <= total
                    /\ total <= cfg.target_avg_sentence_length_max * n
                 THEN Chk(per_check,
                          <<len_msg,
                            Msg("Sentence length in optimal range", <<>>)>>,
                          <<>>)
                 ELSE IF total < cfg.target_avg_sentence_length_min * n
                 THEN Chk(Times(per_check, 6, 10), <<len_msg>>,
                          <<Msg("Sentences are too short", <<>>)>>)
                 ELSE Chk(Times(per_check, 5, 10), <<len_msg>>,
                          <<Msg("Average sentence too long", <<total, n>>)>>)
            ELSE Chk(0, <<>>, <<Msg("Could not parse sentences", <<>>)>>)
        m == Len(d.paragraphs)
        para_total == SumSeq(d.paragraphs)
        para_msg == Msg("Average paragraph length", <<para_total, m>>)
        paragraph_length ==
            IF m > 0
            THEN IF /\ cfg.target_avg_paragraph_sentences_min * m <= para_total
                    /\ para_total <= cfg.target_avg_paragraph_sentences_max * m
                 THEN Chk(per_check,
                          <<para_msg,
                            Msg("Paragraph length in optimal range", <<>>)>>,
                          <<>>)
                 ELSE Chk(Times(per_check, 5, 10), <<para_msg>>,
                          IF para_total
                                 < cfg.target_avg_paragraph_sentences_min * m
                          THEN <<Msg("Paragraphs are too short", <<>>)>>
                          ELSE <<Msg("Paragraphs are too long", <<>>)>>)
            ELSE Chk(0, <<>>, <<>>)
        \* n * n * variance; std_dev > c iff n * n * variance > c * c * n * n
        nn_variance == n * SumSquares(d.sentences) - total * total
        dev_msg == Msg("Sentence length variety", <<nn_variance, n>>)
        variety ==
            IF n > 3
            THEN IF nn_variance > 25 * n * n
                 THEN Chk(per_check,
                          <<dev_msg,
                            Msg("Good sentence length variety", <<>>)>>,
                          <<>>)
                 ELSE IF nn_variance > 9 * n * n
                 THEN Chk(Times(per_check, 6, 10), <<dev_msg>>,
                          <<Msg("Vary sentence lengths more", <<>>)>>)
                 ELSE Chk(Times(per_check, 3, 10), <<dev_msg>>,
                          <<Msg("Sentences are too uniform in length",
                                <<>>)>>)
            ELSE Chk(0, <<>>, <<>>)
    IN  Detail("Readability", weight,
               <<sentence_length, paragraph_length, variety>>)

\* a count scored against a minimum: full, half or nothing
ThreeWay(per_check, count, full_from, measured, full, some, none) ==
    IF count >= full_from
    THEN Chk(per_check, <<measured, full>>, <<>>)
    ELSE IF count >= 1
    THEN Chk(Times(per_check, 5, 10), <<measured>>, <<some>>)
    ELSE Chk(0, <<measured>>, <<none>>)

score_local_seo(d) ==
    LET cfg == SCORING.local_seo
        weight == Weight("local_seo")
        per_check == PerCheck(weight, 4)
    IN  Detail("Local SEO", weight,
            <<ThreeWay(per_check, d.community_count, cfg.community_mention_min,
                       Msg("Community name mentions", <<d.community_count>>),
                       Msg("Sufficient community mentions", <<>>),
                       Msg("Mention community more", <<d.community_count>>),
                       Msg("Community doesn't appear in body text", <<>>)),
              ThreeWay(per_check, d.region_hits, 3,
                       Msg("Regional terms found", <<d.region_hits>>),
                       Msg("Good regional context", <<>>),
                       Msg("Add more regional context", <<>>),
                       Msg("No regional terms found", <<>>)),
              ThreeWay(per_check, d.nearby, 2,
                       Msg("Nearby community mentions", <<d.nearby>>),
                       Msg("References other communities", <<>>),
                       Msg("Reference more nearby communities", <<>>),
                       Msg("Mention nearby communities", <<>>)),
              ThreeWay(per_check, d.signals, 3,
                       Msg("Local detail signals found", <<d.signals>>),
                       Msg("Strong local detail signals", <<>>),
                       Msg("Add more hyperlocal details", <<>>),
                       Msg("Content lacks local specificity", <<>>))>>)

\* the length check of score_meta_description
LengthCheck(len, per_check) ==
    LET cfg == SCORING.meta_description
        len_msg == Msg("Meta description length", <<len>>)
    IN  IF cfg.target_length_min <= len /\ len <= cfg.target_length_max
        THEN Chk(per_check,
                 <<len_msg, Msg("Length in optimal range", <<>>)>>, <<>>)
        ELSE IF 100 <= len /\ len < cfg.target_length_min
        THEN Chk(Times(per_check, 6, 10), <<len_msg>>,
                 <<Msg("Meta description slightly short", <<len>>)>>)
        ELSE IF cfg.target_length_max < len /\ len <= 200
        THEN Chk(Times(per_check, 5, 10), <<len_msg>>,
                 <<Msg("Meta description too long", <<len>>)>>)
        ELSE Chk(0, <<len_msg>>,
                 <<Msg("Meta description length far from optimal",
                       <<len>>)>>)

\* if not desc
NoDescription_absent_only(kind) == kind = "absent"
NoDescription(kind) == kind \in {"absent", "empty", "null"}

score_meta_description(d) ==
    LET cfg == SCORING.meta_description
        weight == Weight("meta_description")
        per_check == PerCheck(weight, 4)
        len == d.desc_len
        length == LengthCheck(len, per_check)
        keyword ==
            IF d.desc_kw
            THEN Chk(per_check, <<Msg("Contains primary keyword", <<>>)>>,
                     <<>>)
            ELSE Chk(0, <<>>,
                     <<Msg("Include keyword in meta description", <<>>)>>)
        action ==
            IF d.desc_cta
            THEN Chk(per_check,
                     <<Msg("Contains action-oriented language", <<>>)>>, <<>>)
            ELSE Chk(0, <<>>,
                     <<Msg("Add a call-to-action in meta description",
                           <<>>)>>)
        compelling ==
            IF ~d.desc_generic /\ len > 50
            THEN Chk(per_check,
                     <<Msg("Description appears unique and compelling",
                           <<>>)>>, <<>>)
            ELSE Chk(Times(per_check, 3, 10), <<>>,
                     <<Msg("Make meta description more compelling", <<>>)>>)
    IN  IF d.fm = "not_mapping"
        THEN Raised("Meta Description", "AttributeError")
        ELSE IF NoDescription(d.description)
        THEN [category |-> "Meta Description", raises |-> "none",
              score |-> 0, max_score |-> weight, percentage |-> 0,
              findings |-> <<Msg("No meta description found", <<>>)>>,
              suggestions |-> <<Msg("Add a meta description in frontmatter",
                                    <<>>)>>]
        ELSE IF d.description = "number"
        THEN Raised("Meta Description", "TypeError")
        ELSE Detail("Meta Description", weight,
                    <<length, keyword, action, compelling>>)

\* ', '.join(set(community_links)): the names in the iteration order of the
\* set, which is the order the interpreter's hash seed gives them
JoinSet(names) == SelectSeq(hash_seed, LAMBDA c : c \in names)

score_internal_linking(d) ==
    LET cfg == SCORING.internal_linking
        weight == Weight("internal_linking")
        per_check == PerCheck(weight, 3)
        n == d.internal_links
        counts ==
            Chk(0, <<Msg("Internal links", <<n>>),
                     Msg("External links", <<d.external_links>>)>>, <<>>)
        link_count ==
            IF cfg.target_min_links <= n /\ n <= cfg.target_max_links
            THEN Chk(per_check,
                     <<Msg("Internal link count in optimal range", <<>>)>>,
                     <<>>)
            ELSE IF n > 0
            THEN Chk(Times(per_check, 5, 10), <<>>,
                     IF n < cfg.target_min_links
                     THEN <<Msg("Add more internal links", <<n>>)>>
                     ELSE <<Msg("Too many internal links", <<n>>)>>)
            ELSE Chk(0, <<>>, <<Msg("Add internal links", <<>>)>>)
        service ==
            IF d.service_link
            THEN Chk(per_check,
                     <<Msg("Links to service/value proposition pages",
                           <<>>)>>, <<>>)
            ELSE Chk(0, <<>>, <<Msg("Add link to service pages", <<>>)>>)
        cross ==
            IF d.cross_links # {}
            THEN Chk(per_check,
                     <<Msg("Cross-community links", JoinSet(d.cross_links))>>,
                     <<>>)
            ELSE Chk(0, <<>>,
                     <<Msg("Add links to nearby community pages", <<>>)>>)
    IN  Detail("Internal Linking", weight,
               <<counts, link_count, service, cross>>)

score_content_depth(d) ==
    LET cfg == SCORING.content_depth
        weight == Weight("content_depth")
        per_check == PerCheck(weight, 4)
        section_count ==
            CountLevel(d.headings, 2) + CountLevel(d.headings, 3)
        sec_msg == Msg("Total sections (H2+H3)", <<section_count>>)
        sections ==
            IF section_count >= cfg.target_unique_sections
            THEN Chk(per_check,
                     <<sec_msg, Msg("Sufficient content sections", <<>>)>>,
                     <<>>)
            ELSE IF section_count >= 2
            THEN Chk(Times(per_check, 5, 10), <<sec_msg>>,
                     <<Msg("Add more content sections", <<section_count>>)>>)
            ELSE Chk(0, <<sec_msg>>,
                     <<Msg("Content needs more structured sections", <<>>)>>)
        statistics ==
            ThreeWay(per_check, d.stat_count, 3,
                     Msg("Statistical/data signals", <<d.stat_count>>),
                     Msg("Content includes data and statistics", <<>>),
                     Msg("Add more market data", <<>>),
                     Msg("Include concrete statistics", <<>>))
        q_msg == Msg("Questions in content", <<d.question_count>>)
        questions ==
            IF d.has_faq \/ d.question_count >= 3
            THEN Chk(per_check,
                     <<q_msg, Msg("FAQ/question-based content present",
                                  <<>>)>>, <<>>)
            ELSE IF d.question_count >= 1
            THEN Chk(Times(per_check, 5, 10), <<q_msg>>,
                     <<Msg("Add an FAQ section", <<>>)>>)
            ELSE Chk(0, <<q_msg>>,
                     <<Msg("Add FAQ section with common questions", <<>>)>>)
        comparison ==
            IF d.comparison
            THEN Chk(per_check,
                     <<Msg("Comparative/evaluative content present", <<>>)>>,
                     <<>>)
            ELSE Chk(Times(per_check, 3, 10), <<>>,
                     <<Msg("Add comparative elements", <<>>)>>)
    IN  Detail("Content Depth", weight,
               <<sections, statistics, questions, comparison>>)

score_cta(d) ==
    LET cfg == SCORING.call_to_action
        weight == Weight("call_to_action")
        n == d.cta_count
        detected == Chk(0, <<Msg("CTAs detected", <<n>>)>>, <<>>)
        points ==
            IF cfg.target_cta_count_min <= n /\ n <= cfg.target_cta_count_max
            THEN Chk(weight, <<Msg("CTA count in optimal range", <<>>)>>, <<>>)
            ELSE IF n > cfg.target_cta_count_max
            THEN Chk(Times(weight, 7, 10), <<>>,
                     <<Msg("Slightly too many CTAs", <<>>)>>)
            ELSE IF n = 1
            THEN Chk(Times(weight, 5, 10), <<>>,
                     <<Msg("Add another CTA", <<>>)>>)
            ELSE Chk(0, <<>>, <<Msg("Add calls to action", <<>>)>>)
    IN  Detail("Call to Action", weight, <<detected, points>>)

score_frontmatter(d) ==
    LET cfg == SCORING.frontmatter
        weight == Weight("frontmatter")
        required == Len(cfg.required_fields)
        present ==
            IF d.fm = "mapping"
            THEN (IF Truthy(d.title) THEN 1 ELSE 0)
                    + (IF Truthy(d.description) THEN 1 ELSE 0)
                    + d.other_fields
            ELSE 0
        missing == required - present
        score == IF required > 0 THEN Times(weight, present, required) ELSE 0
    IN  [category |-> "Frontmatter", raises |-> "none",
         score |-> score, max_score |-> weight,
         percentage |->
            IF required > 0
            THEN (present * 100 * ScoreScale) \div required ELSE 0,
         findings |->
            <<Msg("Frontmatter fields present", <<present, required>>)>>
                \o (IF present > 0 THEN <<Msg("Has", <<present>>)>> ELSE <<>>)
                \o (IF missing > 0 THEN <<Msg("Missing", <<missing>>)>>
                    ELSE <<>>),
         suggestions |->
            IF missing > 0
            THEN <<Msg("Add missing frontmatter fields", <<missing>>)>>
            ELSE <<>>]

\* total = sum(d.score for d in details)
RECURSIVE TotalOf_capped(_)
TotalOf_capped(details) ==
    IF Len(details) <= 1 THEN 0
    ELSE details[1].score + TotalOf_capped(Tail(details))

RECURSIVE TotalOf(_)
TotalOf(details) ==
    IF details = <<>> THEN 0 ELSE details[1].score + TotalOf(Tail(details))

\* max_possible = sum(d.max_score for d in details)
RECURSIVE MaxPossibleOf(_)
MaxPossibleOf(details) ==
    IF details = <<>> THEN 0
    ELSE details[1].max_score + MaxPossibleOf(Tail(details))

\* the ten rules in the order score_post calls them
Rules(d) ==
    <<score_word_count(d), score_keyword_optimization(d),
      score_heading_structure(d), score_readability(d), score_local_seo(d),
      score_meta_description(d), score_internal_linking(d),
      score_content_depth(d), score_cta(d), score_frontmatter(d)>>

\* score_post on the detailed document: the ScoreReport returned, or the
\* exception of the first rule that raises
ScoreReport(d, iteration) ==
    LET details == Rules(d)
        raising == {k \in DOMAIN details : details[k].raises # "none"}
        first == CHOOSE k \in raising : \A j \in raising : k <= j
        total == TotalOf(details)
        max_possible == MaxPossibleOf(details)
    IN  IF raising # {}
        THEN [raises |-> details[first].raises, total_score |-> 0,
              max_possible |-> 0, percentage |-> 0, details |-> <<>>,
              iteration |-> iteration]
        ELSE [raises |-> "none", total_score |-> total,
              max_possible |-> max_possible,
              percentage |->
                  IF max_possible > 0
                  THEN (total * 100) \div (max_possible \div ScoreScale)
                  ELSE 0,
              details |-> details, iteration |-> iteration]

(***************************************************************************)
(* get_improvement_prompt on the dictionary of a report                    *)
(***************************************************************************)
\* round(x, 1) of a value in 1/ScoreScale units, ties to even
RoundTenth(x) ==
    LET tenth == ScoreScale \div 10
        q == x \div tenth
        r == x % tenth
    IN  IF 2 * r < tenth THEN tenth * q
        ELSE IF 2 * r > tenth THEN tenth * (q + 1)
        ELSE IF q % 2 = 0 THEN tenth * q ELSE tenth * (q + 1)

\* ScoreReport.to_dict of a returned report
ReportDict(rep) ==
    [total_score |-> RoundTenth(rep.total_score),
     max_possible |-> rep.max_possible,
     percentage |-> RoundTenth(rep.percentage),
     iteration |-> rep.iteration,
     categories |->
         [j \in DOMAIN rep.details |->
             [category |-> rep.details[j].category,
              score |-> RoundTenth(rep.details[j].score),
              max_score |-> rep.details[j].max_score,
              percentage |-> RoundTenth(rep.details[j].percentage),
              findings |-> rep.details[j].findings,
              suggestions |-> rep.details[j].suggestions]]]

\* cat put into a list sorted by percentage, after the entries that do not
\* exceed it
RECURSIVE InsertByPercentage(_, _)
InsertByPercentage(sorted, cat) ==
    IF sorted = <<>> THEN <<cat>>
    ELSE IF Last(sorted).percentage <= cat.percentage
         THEN Append(sorted, cat)
         ELSE Append(InsertByPercentage(SubSeq(sorted, 1, Len(sorted) - 1),
                                        cat),
                     Last(sorted))

SortedByPercentage_unsorted(cats) == cats

\* sorted(categories, key=lambda x: x["percentage"]): a stable sort
RECURSIVE SortedByPercentage(_)
SortedByPercentage(cats) ==
    IF cats = <<>> THEN <<>>
    ELSE InsertByPercentage(
             SortedByPercentage(SubSeq(cats, 1, Len(cats) - 1)), Last(cats))

\* the suggestions of all categories, each tagged with its category
RECURSIVE TaggedSuggestions(_)
TaggedSuggestions(cats) ==
    IF cats = <<>> THEN <<>>
    ELSE [k \in DOMAIN cats[1].suggestions |->
             [category |-> cats[1].category,
              suggestion |-> cats[1].suggestions[k]]]
         \o TaggedSuggestions(Tail(cats))

\* the parts of the request that get_improvement_prompt derives from the
\* report
get_improvement_prompt(score_report_dict, iteration) ==
    LET categories == SortedByPercentage(score_report_dict.categories)
        worst_3 == SubSeq(categories, 1, Min(3, Len(categories)))
    IN  [iteration |-> iteration,
         total_score |-> score_report_dict.total_score,
         improvement_instructions |->
             SelectSeq(worst_3, LAMBDA cat : cat.suggestions # <<>>),
         all_suggestions |-> TaggedSuggestions(categories),
         breakdown |-> categories]

(***************************************************************************)
(* score_post called on one document, in one interpreter or in several     *)
(***************************************************************************)
ScoreInit ==
    /\ RunInit
    /\ zero_weight = FALSE
    /\ post \in Posts
    /\ hash_seed \in HashSeeds
    /\ reports = <<>>
    /\ prompt = <<>>
    /\ ToolsIdle

\* score_post(content, primary_keyword, community) is called
ScorePost ==
    /\ Len(reports) < MaxCalls
    /\ reports' = Append(reports, ScoreReport(post, 0))
    /\ UNCHANGED <<post, hash_seed, prompt, runVars, zero_weight, batchVars,
                   toolVars>>

\* the program is started again: a new interpreter, a new hash seed
NewProcess ==
    /\ \E q \in HashSeeds \ {hash_seed} : hash_seed' = q
    /\ UNCHANGED <<post, reports, prompt, runVars, zero_weight, batchVars,
                   toolVars>>

\* the revision request is built from the dictionary of the latest report
GetImprovementPrompt ==
    /\ prompt = <<>>
    /\ reports # <<>>
    /\ Last(reports).raises = "none"
    /\ prompt' = <<get_improvement_prompt(ReportDict(Last(reports)),
                                          Len(reports))>>
    /\ UNCHANGED <<post, hash_seed, reports, runVars, zero_weight, batchVars,
                   toolVars>>

ScoreNext == ScorePost \/ NewProcess \/ GetImprovementPrompt

ScoreSpec == ScoreInit /\ [][ScoreNext]_vars

(***************************************************************************)
(* Properties of score_post                                                *)
(***************************************************************************)
\* the reports score_post returned
Returned == {k \in DOMAIN reports : reports[k].raises = "none"}

\* the category results of all returned reports
ReturnedDetails ==
    {reports[k].details[j] : k \in Returned, j \in 1..10}

\* the scores of a list of category results
ScoresIn(details) == [j \in DOMAIN details |-> details[j].score]

MaxScoresIn(details) == [j \in DOMAIN details |-> details[j].max_score]

\* C14: score_post never raises and returns all ten category results, for
\* every input: empty body, no preamble block, unparseable preamble, a
\* preamble that is no mapping, title or description absent, empty, null or
\* not text.
C14_ScorePostNeverRaises ==
    \A k \in DOMAIN reports :
        /\ reports[k].raises = "none"
        /\ Len(reports[k].details) = 10

\* C15: every category result of a returned report has 0 <= score <=
\* max_score, for the empty body and the empty preamble too.
C15_ScoreWithinWeight ==
    /\ \A k \in Returned : Len(reports[k].details) = 10
    /\ \A r \in ReturnedDetails : 0 <= r.score /\ r.score <= r.max_score

\* the empty body under an empty preamble was scored: some categories get
\* nothing, others a part of their weight
C15_Witness ==
    /\ post.wc = 0
    /\ post.fm = "empty"
    /\ Returned # {}
    /\ \E r \in ReturnedDetails : r.score = 0
    /\ \E r \in ReturnedDetails : 0 < r.score /\ r.score < r.max_score

\* C16: in every returned report total_score is the sum of the category
\* scores, max_possible the sum of the category max_scores, and percentage
\* is total_score / max_possible * 100 (0 if max_possible is 0).
C16_TotalsAreSums ==
    \A k \in Returned :
        LET rep == reports[k]
        IN  /\ rep.total_score = SumSeq(ScoresIn(rep.details))
            /\ rep.max_possible = SumSeq(MaxScoresIn(rep.details))
            /\ rep.max_possible = 100 * ScoreScale
            /\ rep.percentage * (rep.max_possible \div ScoreScale)
                   = rep.total_score * 100

\* the empty text was scored: 7.75 of 100 points, 7.75 percent
C16_Witness ==
    /\ post = EmptyPost
    /\ Returned # {}
    /\ reports[1].total_score * 100 = EmptyTextTotal * ScoreScale
    /\ reports[1].percentage * 100 = EmptyTextTotal * ScoreScale

\* C17: a category result with score < max_score has a suggestion.
C17_BelowFullHasSuggestion ==
    \A r \in ReturnedDetails : r.score < r.max_score => r.suggestions # <<>>

\* C18: every category result has a finding, for the empty body and the
\* empty preamble too.
C18_FindingsNonEmpty ==
    \A r \in ReturnedDetails : r.findings # <<>>

\* C19: two calls of score_post on the same document, keyword and community
\* give identical reports: same scores, same findings and suggestions in
\* the same order.
C19_Deterministic ==
    \A j, k \in DOMAIN reports : reports[j] = reports[k]

\* C20: without a description (absent or empty) the Meta Description result
\* has score 0, one finding and one suggestion, whatever the rest is.
C20_NoDescriptionScoresZero ==
    post.description \in {"absent", "empty"} =>
        /\ post.fm # "not_mapping" =>
               LET r == score_meta_description(post)
               IN  /\ r.raises = "none"
                   /\ r.score = 0
                   /\ Len(r.findings) = 1
                   /\ Len(r.suggestions) = 1
        /\ \A k \in Returned :
               LET r == reports[k].details[6]
               IN  /\ r.category = "Meta Description"
                   /\ r.score = 0
                   /\ Len(r.findings) = 1
                   /\ Len(r.suggestions) = 1

\* a document with an empty description and everything else in order
C20_Witness ==
    /\ post.description = "empty"
    /\ post.title_kw
    /\ post.wc = GoodPost.wc
    /\ Returned # {}
    /\ reports[1].details[6].score = 0
    /\ reports[1].details[6].max_score > 0

\* measured values the banded rules are compared on
WordCountGrid == {50 * k : k \in 0..100} \cup WordCounts

LengthGrid == {5 * k : k \in 1..60} \cup DescLens

\* w lies outside the range lo..hi on the same side as v, farther from it
Farther(w, v, lo, hi) == (w < v /\ v < lo) \/ (w > v /\ v > hi)

\* the wording of a list of findings or suggestions
Tags(msgs) == {msgs[k].msg : k \in DOMAIN msgs}

\* C21: in the word-count rule and in the length check of the
\* meta-description rule, of two values outside the target range on the same
\* side, the one closer to the range never gets the lower score.
C21_BandedMonotonic ==
    \A k \in Returned :
        /\ LET cfg == SCORING.word_count
           IN  \A w \in WordCountGrid :
                   Farther(w, post.wc, cfg.target_min, cfg.target_max) =>
                       score_word_count([post EXCEPT !.wc = w]).score
                           <= reports[k].details[1].score
        /\ post.description = "text" =>
               LET cfg == SCORING.meta_description
                   share == PerCheck(Weight("meta_description"), 4)
               IN  \A n \in LengthGrid :
                       Farther(n, post.desc_len, cfg.target_length_min,
                               cfg.target_length_max) =>
                           /\ LengthCheck(n, share).points
                                  <= LengthCheck(post.desc_len, share).points
                           /\ score_meta_description(
                                  [post EXCEPT !.desc_len = n]).score
                                  <= reports[k].details[6].score

\* a body of 1150 words was scored: 7.5 of 10, more than the 5.0 of 800
\* words and the 2.0 of 799
C21_Witness ==
    /\ post.wc = 1150
    /\ Returned # {}
    /\ reports[1].details[1].score * 10 = 75 * ScoreScale
    /\ score_word_count([post EXCEPT !.wc = 800]).score
           < reports[1].details[1].score
    /\ score_word_count([post EXCEPT !.wc = 799]).score
           < score_word_count([post EXCEPT !.wc = 800]).score

\* C23: score_word_count gives the weight inside the target range,
\* weight * (0.5 + 0.5 * ratio) in the bands between hard and target bounds
\* (ratio 0 at the hard bound, 1 at the target bound; credit in
\* [0.5 * weight, weight)), and weight * 0.2 outside the hard range.
C23_WordCountBands ==
    \A k \in Returned :
        LET cfg == SCORING.word_count
            full == cfg.weight * ScoreScale
            wc == post.wc
            r == reports[k].details[1]
        IN  /\ r.category = "Word Count"
            /\ r.max_score = full
            /\ (cfg.target_min <= wc /\ wc <= cfg.target_max) =>
                   r.score = full
            /\ (cfg.hard_min <= wc /\ wc < cfg.target_min) =>
                   /\ r.score * 2 * (cfg.target_min - cfg.hard_min)
                          = full * (cfg.target_min - cfg.hard_min)
                              + full * (wc - cfg.hard_min)
                   /\ full <= 2 * r.score
                   /\ r.score < full
            /\ (cfg.target_max < wc /\ wc <= cfg.hard_max) =>
                   /\ r.score * 2 * (cfg.hard_max - cfg.target_max)
                          = full * (cfg.hard_max - cfg.target_max)
                              + full * (cfg.hard_max - wc)
                   /\ full <= 2 * r.score
                   /\ r.score < full
            /\ (wc < cfg.hard_min \/ wc > cfg.hard_max) =>
                   r.score * 10 = full * 2

\* a body of 3000 words was scored: half way down the upper band, 7.5 of 10
C23_Witness ==
    /\ post.wc = 3000
    /\ Returned # {}
    /\ reports[1].details[1].score * 10 = 75 * ScoreScale

\* C24: the length check of the Meta Description rule is banded: the full
\* share inside the target range, share * (0.5 + 0.5 * ratio) inside the
\* hard range (100..200) outside the target range, share * 0.2 outside the
\* hard range.
C24_LengthCheckIsBanded ==
    (Returned # {} /\ post.description = "text") =>
        LET cfg == SCORING.meta_description
            share == PerCheck(Weight("meta_description"), 4)
            n == post.desc_len
            points == LengthCheck(n, share).points
        IN  /\ (cfg.target_length_min <= n /\ n <= cfg.target_length_max) =>
                   points = share
            /\ (100 <= n /\ n < cfg.target_length_min) =>
                   points * 2 * (cfg.target_length_min - 100)
                       = share * (cfg.target_length_min - 100)
                           + share * (n - 100)
            /\ (cfg.target_length_max < n /\ n <= 200) =>
                   points * 2 * (200 - cfg.target_length_max)
                       = share * (200 - cfg.target_length_max)
                           + share * (200 - n)
            /\ (n < 100 \/ n > 200) => points * 10 = share * 2

\* C25: density = occurrences * words of the phrase / body word count; the
\* density check adds its share inside [0.008, 0.02], 0.4 of it below and
\* 0.3 of it above; 12 occurrences of a 2-word phrase in 1000 words are
\* above.
C25_KeywordDensity ==
    \A k \in Returned :
        post.wc > 0 =>
            LET cfg == SCORING.keyword_optimization
                share == (cfg.weight * ScoreScale) \div 5
                r == reports[k].details[2]
                others ==
                    Cardinality({c \in {"title", "first", "headings", "meta"} :
                        \/ c = "title" /\ post.title_kw
                        \/ c = "first" /\ post.kw_first100
                        \/ c = "headings" /\ post.kw_headings
                        \/ c = "meta" /\ post.desc_kw})
                density_points == r.score - others * share
                thousandths_words == 1000 * post.kw_count * post.kw_words
                below == thousandths_words < cfg.target_density_min * post.wc
                above == thousandths_words > cfg.target_density_max * post.wc
            IN  /\ r.category = "Keyword Optimization"
                /\ (~below /\ ~above) => density_points = share
                /\ below => density_points * 10 = share * 4
                /\ above => density_points * 10 = share * 3
                /\ (post.wc = 1000 /\ post.kw_count = 12 /\ post.kw_words = 2)
                       => /\ density_points * 10 = share * 3
                          /\ "Reduce keyword stuffing" \in Tags(r.suggestions)
                          /\ "Keyword density in optimal range"
                                 \notin Tags(r.findings)

\* 12 occurrences of a 2-word phrase in a 1000-word body were scored
C25_Witness ==
    /\ post.wc = 1000
    /\ post.kw_count = 12
    /\ post.kw_words = 2
    /\ Returned # {}
    /\ "Reduce keyword stuffing" \in Tags(reports[1].details[2].suggestions)

\* C26: the hierarchy check gives its full share if and only if no heading
\* of the body is more than one level deeper than the heading before it;
\* otherwise 0.3 of the share.
C26_HierarchyIffNoSkip ==
    \A k \in Returned :
        LET hs == post.headings
            no_skip == \A j \in 2..Len(hs) : hs[j] <= hs[j - 1] + 1
            share == PerCheck(Weight("heading_structure"), 4)
            r == reports[k].details[3]
        IN  /\ no_skip <=>
                   "Heading hierarchy is logical" \in Tags(r.findings)
            /\ HierarchyCheck(hs, share).points
                   = IF no_skip THEN share ELSE (share * 3) \div 10

(***************************************************************************)
(* extract_markdown on a collaborator response.  The response is a         *)
(* sequence of tokens: a word, a space, a newline, the fence ``` and the    *)
(* fence directly followed by the word markdown.                           *)
(***************************************************************************)
\* tokens of a response
MaxTokens == 5

Tokens == {"word", "space", "newline", "fence", "fence_markdown"}

Whitespace == {"space", "newline"}

\* both markers contain the substring ```
Fences == {"fence", "fence_markdown"}

\* responses of up to MaxTokens tokens; two markers are never adjacent (six
\* backticks are not two fences)
ResponseTexts ==
    {s \in UNION {[1..n -> Tokens] : n \in 0..MaxTokens} :
        \A k \in 1..(Len(s) - 1) : ~(s[k] \in Fences /\ s[k + 1] \in Fences)}

\* s[start:end] with token offsets counted from 0: empty when start >= end
Slice(s, start, end) ==
    IF start >= end THEN <<>> ELSE SubSeq(s, start + 1, end)

\* str.strip()
RECURSIVE Strip(_)
Strip(s) ==
    IF s = <<>> THEN <<>>
    ELSE IF s[1] \in Whitespace THEN Strip(Tail(s))
    ELSE IF Last(s) \in Whitespace THEN Strip(SubSeq(s, 1, Len(s) - 1))
    ELSE s

\* positions of the tokens of a set
Positions(s, kinds) == {k \in DOMAIN s : s[k] \in kinds}

\* s.index(x): offset of the first token of the set, s.rindex(x): of the last
IndexOf(s, kinds) ==
    (CHOOSE k \in Positions(s, kinds) :
        \A j \in Positions(s, kinds) : k <= j) - 1

RIndexOf(s, kinds) ==
    (CHOOSE k \in Positions(s, kinds) :
        \A j \in Positions(s, kinds) : k >= j) - 1

\* response.strip().startswith("```")
StartsWithFence(s) == Strip(s) # <<>> /\ Strip(s)[1] \in Fences

Extracted(s) == [raises |-> "none", text |-> s]

extract_markdown(s) ==
    IF Positions(s, {"fence_markdown"}) # {}
    THEN Extracted(Strip(Slice(s, IndexOf(s, {"fence_markdown"}) + 1,
                               RIndexOf(s, Fences))))
    ELSE IF Positions(s, Fences) # {} /\ StartsWithFence(s)
    THEN IF Positions(s, {"newline"}) = {}
         THEN [raises |-> "ValueError", text |-> <<>>]
         ELSE Extracted(Strip(Slice(s, IndexOf(s, {"newline"}) + 1,
                                    RIndexOf(s, Fences))))
    ELSE Extracted(Strip(s))

ExtractInit ==
    /\ RunInit
    /\ zero_weight = FALSE
    /\ ScoreIdle
    /\ HtmlIdle
    /\ response \in ResponseTexts
    /\ extracted = <<>>

\* extract_markdown(response) is called
ExtractMarkdown ==
    /\ extracted = <<>>
    /\ extracted' = <<extract_markdown(response)>>
    /\ UNCHANGED <<response, htmlVars, runVars, zero_weight, batchVars,
                   scoreVars>>

ExtractNext == ExtractMarkdown

ExtractSpec == ExtractInit /\ [][ExtractNext]_vars

(***************************************************************************)
(* publish.py: markdown_to_html, one action per branch of its line loop.   *)
(* A line is represented by the branch it takes, an output line by the     *)
(* element it holds.                                                       *)
(***************************************************************************)
\* lines of a body
MaxLines == 4

LineKinds == {"blank", "h1", "heading", "ul_item", "ol_item", "text"}

\* body.strip().split('\n'): the first and the last line are not blank,
\* except for the single empty line of an empty body
BodyLines ==
    {<<"blank">>}
        \cup {ls \in UNION {[1..n -> LineKinds] : n \in 1..MaxLines} :
                 ls[1] # "blank" /\ ls[Len(ls)] # "blank"}

\* the local state the nested functions work on
HtmlState ==
    [html_lines |-> html_lines, in_ul |-> in_ul, in_ol |-> in_ol,
     in_paragraph |-> in_paragraph, paragraph_lines |-> paragraph_lines]

Emit(st, out) == [st EXCEPT !.html_lines = st.html_lines \o out]

flush_paragraph(st) ==
    IF st.paragraph_lines > 0
    THEN [Emit(st, <<"<p>...</p>", "">>) EXCEPT !.paragraph_lines = 0,
                                               !.in_paragraph = FALSE]
    ELSE st

close_list_ul_only(st) ==
    IF st.in_ul THEN [Emit(st, <<"</ul>", "">>) EXCEPT !.in_ul = FALSE]
    ELSE st

close_list(st) ==
    LET after_ul ==
            IF st.in_ul THEN [Emit(st, <<"</ul>", "">>) EXCEPT !.in_ul = FALSE]
            ELSE st
    IN  IF after_ul.in_ol
        THEN [Emit(after_ul, <<"</ol>", "">>) EXCEPT !.in_ol = FALSE]
        ELSE after_ul

\* the loop goes on to the next line with local state st
NextLine(st) ==
    /\ line_no' = line_no + 1
    /\ html_lines' = st.html_lines
    /\ in_ul' = st.in_ul
    /\ in_ol' = st.in_ol
    /\ in_paragraph' = st.in_paragraph
    /\ paragraph_lines' = st.paragraph_lines
    /\ UNCHANGED <<lines, returned, extractVars, runVars, zero_weight,
                   batchVars, scoreVars>>

\* the line the loop is at is of this kind
AtLine(kind) ==
    /\ ~returned
    /\ line_no < Len(lines)
    /\ lines[line_no + 1] = kind

BlankLine ==
    /\ AtLine("blank")
    /\ NextLine(close_list(flush_paragraph(HtmlState)))

\* a heading of level 1 closes what is open and is skipped
HeadingOne ==
    /\ AtLine("h1")
    /\ NextLine(close_list(flush_paragraph(HtmlState)))

HeadingLine ==
    /\ AtLine("heading")
    /\ NextLine(Emit(close_list(flush_paragraph(HtmlState)),
                     <<"<h>...</h>", "">>))

UnorderedItem ==
    /\ AtLine("ul_item")
    /\ LET flushed == flush_paragraph(HtmlState)
           opened == IF ~flushed.in_ul
                     THEN [Emit(close_list(flushed), <<"<ul>">>)
                               EXCEPT !.in_ul = TRUE]
                     ELSE flushed
       IN  NextLine(Emit(opened, <<"<li>...</li>">>))

OrderedItem ==
    /\ AtLine("ol_item")
    /\ LET flushed == flush_paragraph(HtmlState)
           opened == IF ~flushed.in_ol
                     THEN [Emit(close_list(flushed), <<"<ol>">>)
                               EXCEPT !.in_ol = TRUE]
                     ELSE flushed
       IN  NextLine(Emit(opened, <<"<li>...</li>">>))

TextLine ==
    /\ AtLine("text")
    /\ LET closed == close_list(HtmlState)
       IN  NextLine([closed EXCEPT
                        !.paragraph_lines = closed.paragraph_lines + 1,
                        !.in_paragraph = TRUE])

\* after the loop: flush_paragraph(), close_list(), return
ReturnHtml ==
    /\ ~returned
    /\ line_no = Len(lines)
    /\ LET st == close_list(flush_paragraph(HtmlState))
       IN  /\ html_lines' = st.html_lines
           /\ in_ul' = st.in_ul
           /\ in_ol' = st.in_ol
           /\ in_paragraph' = st.in_paragraph
           /\ paragraph_lines' = st.paragraph_lines
    /\ returned' = TRUE
    /\ UNCHANGED <<lines, line_no, extractVars, runVars, zero_weight,
                   batchVars, scoreVars>>

HtmlInit ==
    /\ RunInit
    /\ zero_weight = FALSE
    /\ ScoreIdle
    /\ ExtractIdle
    /\ lines \in BodyLines
    /\ line_no = 0
    /\ html_lines = <<>>
    /\ in_ul = FALSE
    /\ in_ol = FALSE
    /\ in_paragraph = FALSE
    /\ paragraph_lines = 0
    /\ returned = FALSE

HtmlNext ==
    \/ BlankLine
    \/ HeadingOne
    \/ HeadingLine
    \/ UnorderedItem
    \/ OrderedItem
    \/ TextLine
    \/ ReturnHtml

HtmlSpec == HtmlInit /\ [][HtmlNext]_vars

(***************************************************************************)
(* Properties of run_optimization: persisted files, the iteration cap      *)
(***************************************************************************)
\* C22: when the run aborts because the collaborator call of revision k
\* fails, the documents and score reports of iterations 0..k-1 are on disk
\* and stay there, and neither FINAL.md nor run_summary.json was written.
C22_PartialHistoryPersisted ==
    /\ [](  (pc = "aborted" /\ error = "APIError" /\ i >= 1) =>
                /\ Len(versions) = i
                /\ Len(history) = i
                /\ \A k \in 1..i :
                       /\ versions[k].md.id = k - 1
                       /\ versions[k].md.total = history[k].score
                       /\ versions[k].score_json.iteration = k - 1
                       /\ versions[k].score_json.total_score
                              = Round1(history[k].score)
                /\ final_md = <<>>
                /\ run_summary = <<>>
                /\ result = <<>>)
    /\ [][pc = "aborted" => UNCHANGED <<versions, final_md, run_summary>>]_vars

\* the call of revision 2 failed after v0 and v1 were saved
C22_Witness ==
    /\ pc = "aborted"
    /\ error = "APIError"
    /\ i = 2
    /\ Len(versions) = 2
    /\ versions[2].md.id = 1

(***************************************************************************)
(* run_optimization asked for more iterations than max_count: the          *)
(* collaborator returns documents that score one point above or one point  *)
(* below the best so far, so that runs get as long as the cap allows.      *)
(***************************************************************************)
\* how far above max_count the requested count goes
MaxOver == 1

ClampIterationsArgs ==
    {NoArg}
        \cup {[given |-> TRUE, value |-> n] :
                 n \in {-1, 0, 1} \cup max_count..(max_count + MaxOver)}

ClimbResponses ==
    {[has_preamble |-> TRUE, text_fields |-> TRUE, total |-> 100 * k] :
        k \in 0..(max_count + 2)}

ClampNext ==
    \/ \E ct \in ContentTypeArgs, arg \in ClampIterationsArgs : Start(ct, arg)
    \/ \E resp \in ClimbResponses :
           resp.total = 100 /\ GenerationReturns(resp)
    \/ GenerationFails
    \/ RequestRevision
    \/ \E resp \in ClimbResponses :
           /\ resp.total - best_score \in {100, -100}
           /\ RevisionReturns(resp)
    \/ RevisionFails
    \/ Finalize

ClampSpec == Init /\ [][ClampNext]_vars

\* the requested count: the argument, or the default for None
RequestedCount ==
    IF requested.given THEN requested.value ELSE default_count

\* improvement requests sent so far
RevisionsRequested ==
    Cardinality({k \in DOMAIN requests : requests[k].kind = "improvement"})

\* C29: the revisions run never exceed min(requested, 15): a count above
\* the maximum is clamped to it, and a count <= 0 runs no revision, leaving
\* iteration 0 as best and final document with a history of one record.
C29_RevisionsWithinCap ==
    pc \notin {"start", "exited"} =>
        LET cap == Min(RequestedCount, max_count)
        IN  /\ iterations = cap
            /\ cap >= 0 => RevisionsRequested <= cap
            /\ cap >= 0 => Len(history) <= cap + 1
            /\ i <= max_count
            /\ RequestedCount <= 0 =>
                   /\ RevisionsRequested = 0
                   /\ Len(history) <= 1
                   /\ pc = "done" =>
                          /\ Len(history) = 1
                          /\ best_iteration = 0
                          /\ final_md = <<versions[1].md>>
                          /\ final_md[1].id = 0
                          /\ result[1].iterations_run = 0

\* 16 iterations were requested and every one of the 15 allowed was run
C29_Witness ==
    /\ requested.given
    /\ requested.value = max_count + 1
    /\ pc = "done"
    /\ RevisionsRequested = max_count
    /\ Len(history) = max_count + 1

(***************************************************************************)
(* Properties of get_improvement_prompt                                    *)
(***************************************************************************)
\* the categories of the report the request was built from
PromptCategories == ReportDict(reports[prompt[1].iteration]).categories

\* the position of a category in the report
PositionOf(cat) ==
    CHOOSE j \in DOMAIN PromptCategories :
        PromptCategories[j].category = cat.category

\* categories with fewer than three others before them, by percentage and
\* then by position in the report
ThreeLowest ==
    {PromptCategories[j] : j \in
        {j \in DOMAIN PromptCategories :
            Cardinality({k \in DOMAIN PromptCategories :
                \/ PromptCategories[k].percentage
                       < PromptCategories[j].percentage
                \/ /\ PromptCategories[k].percentage
                          = PromptCategories[j].percentage
                   /\ k < j}) < 3}}

\* the three lowest percentages of the report, ascending
ThreeLowestPercentages ==
    LET pcts == [j \in DOMAIN PromptCategories |->
                    PromptCategories[j].percentage]
        rank(j) == Cardinality({k \in DOMAIN pcts :
                       pcts[k] < pcts[j] \/ (pcts[k] = pcts[j] /\ k < j)})
    IN  [n \in 1..3 |-> pcts[CHOOSE j \in DOMAIN pcts : rank(j) = n - 1]]

PriorityAreas == prompt[1].improvement_instructions

\* C27: the priority areas of a revision request are exactly the three
\* categories with the lowest percentage of the report, in ascending order
\* of percentage, each with its suggestions.
C27_PriorityAreasAreWorstThree ==
    prompt # <<>> =>
        /\ Len(PriorityAreas) = 3
        /\ \A n \in 1..3 :
               /\ n <= Len(PriorityAreas)
               /\ PriorityAreas[n].percentage = ThreeLowestPercentages[n]
               /\ PriorityAreas[n] \in
                      {PromptCategories[j] : j \in DOMAIN PromptCategories}

\* C27 as amended: the priority areas are those of the three
\* lowest-percentage categories (ties broken by the order of the report)
\* that have at least one suggestion, in ascending order of percentage, each
\* with its suggestions.
C27_PriorityAreasWithSuggestions ==
    prompt # <<>> =>
        /\ {PriorityAreas[n] : n \in DOMAIN PriorityAreas}
               = {cat \in ThreeLowest : cat.suggestions # <<>>}
        /\ \A n, m \in DOMAIN PriorityAreas :
               n < m =>
                   /\ PriorityAreas[n].percentage <= PriorityAreas[m].percentage
                   /\ PriorityAreas[n].category # PriorityAreas[m].category
                   /\ PriorityAreas[n].percentage = PriorityAreas[m].percentage
                          => PositionOf(PriorityAreas[n])
                                 < PositionOf(PriorityAreas[m])

\* a request whose three priority areas are not in the order of the report
C27_Witness ==
    /\ prompt # <<>>
    /\ Len(PriorityAreas) = 3
    /\ PriorityAreas[1].percentage < PriorityAreas[2].percentage
    /\ PositionOf(PriorityAreas[1]) > PositionOf(PriorityAreas[2])

(***************************************************************************)
(* Properties of extract_markdown                                          *)
(***************************************************************************)
\* a response with one fenced block: an opening marker that ends its line
\* and a closing fence
OneBlock ==
    /\ Cardinality(Positions(response, Fences)) = 2
    /\ response[RIndexOf(response, Fences) + 1] = "fence"
    /\ response[IndexOf(response, Fences) + 2] = "newline"

\* the text enclosed by the block: what follows the line of the opening
\* marker (or the marker itself when the block is on one line), up to the
\* closing fence, trimmed
Payload ==
    LET open == IndexOf(response, Fences) + 1
        close == RIndexOf(response, Fences) + 1
        inner == SubSeq(response, open + 1, close - 1)
    IN  IF response[open] = "fence" /\ Positions(inner, {"newline"}) # {}
        THEN Strip(SubSeq(inner, IndexOf(inner, {"newline"}) + 2,
                          Len(inner)))
        ELSE Strip(inner)

\* C28: extract_markdown returns the payload enclosed by the code fence
\* whenever the response contains a fence marker, generic or
\* markup-specific, wherever it appears, and the trimmed response when it
\* contains no fence marker.
C28_FencedPayloadOrTrimmed ==
    extracted # <<>> =>
        /\ OneBlock => extracted[1] = Extracted(Payload)
        /\ Positions(response, Fences) = {}
               => extracted[1] = Extracted(Strip(response))

(***************************************************************************)
(* Properties of markdown_to_html                                          *)
(***************************************************************************)
\* the list left open by the output lines read so far, starting from
\* `open` ("none", "ul" or "ol"); "bad" when a tag is out of place: a list
\* opened inside a list, a closing tag without its opening tag, an item
\* outside a list, a paragraph or heading inside a list
RECURSIVE OpenAfter(_, _)
OpenAfter(out, open) ==
    IF out = <<>> \/ open = "bad" THEN open
    ELSE LET tag == out[1]
             then ==
                 CASE tag = "<ul>" -> IF open = "none" THEN "ul" ELSE "bad"
                   [] tag = "<ol>" -> IF open = "none" THEN "ol" ELSE "bad"
                   [] tag = "</ul>" -> IF open = "ul" THEN "none" ELSE "bad"
                   [] tag = "</ol>" -> IF open = "ol" THEN "none" ELSE "bad"
                   [] tag = "<li>...</li>" ->
                          IF open \in {"ul", "ol"} THEN open ELSE "bad"
                   [] tag \in {"<p>...</p>", "<h>...</h>"} ->
                          IF open = "none" THEN open ELSE "bad"
                   [] OTHER -> open
         IN  OpenAfter(Tail(out), then)

\* how often an element occurs in the output
CountOf(tag) == Cardinality({k \in DOMAIN html_lines : html_lines[k] = tag})

\* C30: while markdown_to_html works through the lines, at most one of the
\* unordered and the ordered list is open, no list is open while paragraph
\* lines are pending, and at the end every list and paragraph opened is
\* closed: the ul, ol and p tags of the output are balanced and nested
\* properly.
C30_ListsAndParagraphsBalanced ==
    /\ ~(in_ul /\ in_ol)
    /\ (in_ul \/ in_ol) => paragraph_lines = 0
    /\ in_paragraph <=> paragraph_lines > 0
    /\ OpenAfter(html_lines, "none")
           = IF in_ul THEN "ul" ELSE IF in_ol THEN "ol" ELSE "none"
    /\ returned =>
           /\ ~in_ul
           /\ ~in_ol
           /\ paragraph_lines = 0
           /\ CountOf("<ul>") = CountOf("</ul>")
           /\ CountOf("<ol>") = CountOf("</ol>")
           /\ OpenAfter(html_lines, "none") = "none"

\* an unordered list, an ordered list and a paragraph were written and the
\* function has returned
C30_Witness ==
    /\ returned
    /\ CountOf("<ul>") >= 1
    /\ CountOf("<ol>") >= 1
    /\ CountOf("<p>...</p>") >= 1

====
